---- MODULE Spec2Model ----
(***************************************************************************)
(* State-machine model of the autonomous maintenance agent:                *)
(*   ml/agent/copilot.py        AgentMemory, MaintenanceCopilot            *)
(*   ml/agent/event_monitor.py  EventMonitor                               *)
(* The asyncio event loop is modelled as interleaving of steps that run    *)
(* from one await point to the next.  Time is the reading of               *)
(* datetime.utcnow(), in hours.                                            *)
(***************************************************************************)
EXTENDS Integers, Sequences, FiniteSets, TLC

(* ------------------------------ bounds --------------------------------- *)
\* Event objects created in one behaviour of the run-loop specification.
MaxEvents == 2
\* Events a caller stores, and events handed to reason(), in one behaviour of the
\* escalation specification.
MaxStored == 4
MaxGiven == 1
\* Event objects created in one behaviour of the memory specification.
MaxAdds == 4
\* Largest max_events capacity tried by the memory specification.
MaxK == 3
\* Last clock reading (hours).
MaxNow == 36
\* Collaborator calls that raise in one behaviour.
MaxFaults == 1
\* Largest retry_count of a registered webhook.
MaxRetry == 2
\* register_webhook calls in one behaviour.
MaxRegistrations == 2
\* Calls the ML pipeline makes on the monitor and the copilot in one behaviour.
MaxCalls == 2

\* The clock advances in steps of these many hours (half a window).
TickHours == {12}

(* --------------------------- program constants ------------------------- *)
DefaultMaxEvents == 1000
WindowHours == 24
AnomalyThreshold == 70
EscalationThreshold == 3
PriorityOverrideCount == 3
MaxDeadlineTenths == 240

RulCriticalHours == 24
RulSevereHours == 10
RulWarnHours == 50
MonitorAnomalyThreshold == 70
RulWarningHours == 48
DriftThreshold == 50
MinDriftedFeatures == 2
ActivityLimit == 20
SuggestionWindow == 10

Tenants == {"tA", "tB"}
Assets == {"a1"}
\* The run() tasks: the second one exists when EventMonitor.start() is called again.
Tasks == {1, 2}

VARIABLES
    now,              \* datetime.utcnow(), hours
    max_events,       \* AgentMemory.max_events
    llm,              \* MaintenanceCopilot.llm is set
    tickets,          \* MaintenanceCopilot.tickets is set
    notifications,    \* MaintenanceCopilot.notifications is set
    ev,               \* every Event object created so far; its index is its identity
    events,           \* AgentMemory.events: list of Event objects
    event_queue,      \* MaintenanceCopilot.event_queue
    incidents,        \* AgentMemory.incidents: id -> Incident
    action_history,   \* AgentMemory.action_history: list of Action objects <<event, index>>
    produced,         \* per Event: the Action objects reason() returned, or a caller built, for it
    is_running,       \* MaintenanceCopilot.is_running
    monitor_running,  \* EventMonitor.is_running
    pc,               \* per run() task: where it is suspended
    cur,              \* per run() task: the event it holds (0: none)
    idx,              \* per run() task: index of the action act() is called on next
    trace,            \* per Event: history of what happened to it
    stopPending,      \* stop() was called and no start() since
    faults,           \* collaborator calls that raised so far
    inbound,          \* the calls the ML pipeline made on the monitor and the copilot
    thresholds,       \* EventMonitor.anomaly_threshold, MaintenanceCopilot.anomaly_threshold
    webhooks,         \* WebhookService.webhooks: the configs, in dict insertion order
    deliveries,       \* WebhookService.deliveries: list of WebhookDelivery records
    client,           \* WebhookService.client is set (httpx is installed)
    call,             \* the trigger() call in flight and where it is suspended
    delivery_trace,   \* per WebhookDelivery in the list: history of its attempts
    service_trace,    \* counts of the calls made on the WebhookService so far
    tenant_webhooks,  \* WebhookManager.tenant_webhooks: tenant_id -> webhook ids
    sig               \* a signing and verification exchange

agentVars == <<now, max_events, llm, tickets, notifications, ev, events, event_queue,
               incidents, action_history, produced, is_running, monitor_running,
               pc, cur, idx, trace, stopPending, faults, inbound, thresholds>>

serviceVars == <<webhooks, deliveries, client, call, delivery_trace, service_trace,
                 tenant_webhooks>>

vars == <<agentVars, serviceVars, sig>>

(* ------------------------------ helpers -------------------------------- *)
Min(a, b) == IF a <= b THEN a ELSE b

Max(a, b) == IF a >= b THEN a ELSE b

\* Python's s[-k:] for k >= 0: the slice starts at len(s) - k when k > 0, and at
\* index 0 when k = 0 (since -0 == 0).
SliceLast(s, k) ==
    LET start == IF k = 0 THEN 0 ELSE Max(Len(s) - k, 0)
    IN  SubSeq(s, start + 1, Len(s))

\* An Event as built by its dataclass constructor (processed defaults to False).
Event(type, tenant, asset, ts, sev, score, risk, rul) ==
    [type |-> type, tenant_id |-> tenant, asset_id |-> asset, timestamp |-> ts,
     severity |-> sev, processed |-> FALSE,
     anomaly_score |-> score, risk_level |-> risk, rul_hours |-> rul,
     drift_score |-> 0, drifted_features |-> <<>>]

\* An Event whose data carry a drift score (hundredths) and drifted feature names.
DriftEvent(tenant, asset, ts, sev, drift_score, features) ==
    [Event("drift_detected", tenant, asset, ts, sev, 0, "normal", 0)
       EXCEPT !.drift_score = drift_score, !.drifted_features = features]

\* An Action as built by its dataclass constructor (executed False, result None).
\* channels is details["channels"]: <<>> when the key is absent, else the list
\* wrapped in a one-element sequence.  calls is the collaborator calls the executor
\* of the action made.
Action(type, priority, tenant, asset, count, deadline) ==
    [type |-> type, priority |-> priority, tenant_id |-> tenant, asset_id |-> asset,
     event_count |-> count, deadline_tenths |-> deadline,
     action |-> "None", drift_score |-> 0, affected_features |-> <<>>,
     channels |-> <<>>, calls |-> <<>>,
     executed |-> FALSE, result |-> "None"]

\* The action with details["channels"] set to the list.
WithChannels(a, list) == [a EXCEPT !.channels = <<list>>]

\* History of an Event object: status is "direct" (built by a caller), "stored"
\* (added to memory by a caller), "queued", "inflight" or "handled"; reason is how
\* its reason() call ended: "none", "pending", "ok" or "raised"; prior is the
\* number of critical events other than itself in the recent-events list that
\* reason() read, self says that the list held the event itself as critical, and
\* stopped that stop() was called while the event was in flight.
NewTrace(status) ==
    [status |-> status, reason |-> "none", prior |-> 0, self |-> FALSE,
     stopped |-> FALSE]

(* ----------------------------- AgentMemory ----------------------------- *)
add_event_front(evs, e, k) ==
    LET added == <<e>> \o evs
    IN  IF Len(added) > k THEN SliceLast(added, k) ELSE added

\* add_event: append, then trim to the last max_events entries when longer.
add_event(evs, e, k) ==
    LET appended == Append(evs, e)
    IN  IF Len(appended) > k THEN SliceLast(appended, k) ELSE appended

get_recent_events_newestfirst(tenant, asset, type, hours) ==
    LET cutoff == now - hours
        keep(i) == /\ ev[i].tenant_id = tenant
                   /\ ev[i].timestamp >= cutoff
                   /\ (asset = "None" \/ ev[i].asset_id = asset)
                   /\ (type = "None" \/ ev[i].type = type)
        kept == SelectSeq(events, keep)
    IN  [k \in 1..Len(kept) |-> kept[Len(kept) + 1 - k]]

get_recent_events_anytenant(tenant, asset, type, hours) ==
    LET cutoff == now - hours
        keep(i) == /\ ev[i].timestamp >= cutoff
                   /\ (asset = "None" \/ ev[i].asset_id = asset)
                   /\ (type = "None" \/ ev[i].type = type)
    IN  SelectSeq(events, keep)

\* get_recent_events: ids of the buffered events passing the filters, in buffer order.
\* asset and type are "None" when the optional filter is not given.
get_recent_events(tenant, asset, type, hours) ==
    LET cutoff == now - hours
        keep(i) == /\ ev[i].tenant_id = tenant
                   /\ ev[i].timestamp >= cutoff
                   /\ (asset = "None" \/ ev[i].asset_id = asset)
                   /\ (type = "None" \/ ev[i].type = type)
    IN  SelectSeq(events, keep)

\* add_incident: self.incidents[incident.id] = incident
add_incident(incs, id, inc) ==
    [i \in (DOMAIN incs) \cup {id} |-> IF i = id THEN inc ELSE incs[i]]

\* get_agent_activity(asset_id) of a user of any tenant: the last 20 buffered
\* events with that asset id.
get_agent_activity_events(asset) ==
    SliceLast(SelectSeq(events, LAMBDA i : ev[i].asset_id = asset), ActivityLimit)

\* get_agent_activity(asset_id): the last 20 actions of the history with that asset id.
get_agent_activity_actions(asset) ==
    SliceLast(SelectSeq(action_history,
                        LAMBDA h : produced[h[1]][h[2]].asset_id = asset),
              ActivityLimit)

\* CopilotService.get_suggestions(tenant_id, asset_id): the suggest_action actions
\* with that asset id among the last 10 of the history.
get_suggestions(tenant, asset) ==
    SelectSeq(SliceLast(action_history, SuggestionWindow),
              LAMBDA h : /\ produced[h[1]][h[2]].asset_id = asset
                         /\ produced[h[1]][h[2]].type = "suggest_action")

(* --------------------------- reasoning rules --------------------------- *)
\* Number of events of the list whose severity is "critical".
CriticalCount(recent) ==
    Len(SelectSeq(recent, LAMBDA i : ev[i].severity = "critical"))

determine_priority_base(e, recent) ==
    IF e.severity = "critical" THEN "critical"
    ELSE IF e.severity = "warning" THEN "high"
    ELSE "medium"

\* _determine_priority: base priority from the event's severity, overridden to
\* critical when at least 3 recent events are critical.
determine_priority(e, recent) ==
    LET base == IF e.severity = "critical" THEN "critical"
                ELSE IF e.severity = "warning" THEN "high"
                ELSE "medium"
    IN  IF CriticalCount(recent) >= PriorityOverrideCount THEN "critical" ELSE base

should_escalate_two(recent) == CriticalCount(recent) >= EscalationThreshold - 1

should_escalate_gt(recent) == CriticalCount(recent) > EscalationThreshold

\* _should_escalate: the critical events of the list reach escalation_threshold.
should_escalate(recent) == CriticalCount(recent) >= EscalationThreshold

AnomalyGate_gt(e) ==
    e.anomaly_score > thresholds.copilot \/ e.risk_level \in {"warning", "critical"}

AnomalyGate_shared(e) ==
    e.anomaly_score >= thresholds.monitor \/ e.risk_level \in {"warning", "critical"}

\* The gate of _reason_anomaly.
AnomalyGate(e) ==
    e.anomaly_score >= thresholds.copilot \/ e.risk_level \in {"warning", "critical"}

\* reason() awaits the LLM collaborator for this event when one is configured.
CallsLLM(e) ==
    \/ e.type = "anomaly_detected" /\ AnomalyGate(e)
    \/ e.type = "rul_critical"

reason_anomaly(e, priority) ==
    IF AnomalyGate(e)
    THEN <<Action("create_incident", priority, e.tenant_id, e.asset_id, 0, 0),
           WithChannels(Action("send_notification", priority, e.tenant_id,
                               e.asset_id, 0, 0),
                        <<"email", "slack">>)>>
         \o (IF priority \in {"high", "critical"}
             THEN <<Action("create_ticket", priority, e.tenant_id, e.asset_id, 0, 0)>>
             ELSE <<>>)
    ELSE <<>>

reason_drift_incident(e, priority) ==
    (IF priority = "critical"
     THEN <<Action("create_incident", priority, e.tenant_id, e.asset_id, 0, 0)>>
     ELSE <<>>)
    \o <<[Action("suggest_action", priority, e.tenant_id, e.asset_id, 0, 0)
            EXCEPT !.action = "retrain_model", !.drift_score = e.drift_score,
                   !.affected_features = e.drifted_features]>>

\* _reason_drift: one suggestion to retrain, with the drift score and feature names.
reason_drift(e, priority) ==
    <<[Action("suggest_action", priority, e.tenant_id, e.asset_id, 0, 0)
         EXCEPT !.action = "retrain_model", !.drift_score = e.drift_score,
                !.affected_features = e.drifted_features]>>

reason_critical_rul_eventpriority(e, priority) ==
    <<Action("create_incident", priority, e.tenant_id, e.asset_id, 0, 0),
      Action("schedule_maintenance", priority, e.tenant_id, e.asset_id, 0,
             Min(e.rul_hours * 8, MaxDeadlineTenths)),
      Action("create_ticket", priority, e.tenant_id, e.asset_id, 0, 0)>>

\* deadline_hours = min(rul_hours * 0.8, 24), kept in tenths of an hour.
reason_critical_rul(e, priority) ==
    <<Action("create_incident", "critical", e.tenant_id, e.asset_id, 0, 0),
      Action("schedule_maintenance", "critical", e.tenant_id, e.asset_id, 0,
             Min(e.rul_hours * 8, MaxDeadlineTenths)),
      Action("create_ticket", "critical", e.tenant_id, e.asset_id, 0, 0)>>

\* _reason_maintenance: one suggestion to schedule maintenance.
reason_maintenance(e, priority) ==
    <<[Action("suggest_action", priority, e.tenant_id, e.asset_id, 0, 0)
         EXCEPT !.action = "schedule_maintenance"]>>

\* reason(): the action list returned for event e when no collaborator raises.
reason(e) ==
    LET recent == get_recent_events(e.tenant_id, e.asset_id, "None", WindowHours)
        priority == determine_priority(e, recent)
        byType == CASE e.type = "anomaly_detected" -> reason_anomaly(e, priority)
                    [] e.type = "drift_detected" -> reason_drift(e, priority)
                    [] e.type = "rul_critical" -> reason_critical_rul(e, priority)
                    [] e.type = "maintenance_due" -> reason_maintenance(e, priority)
                    [] OTHER -> <<>>
    IN  byType \o (IF should_escalate(recent)
                   THEN <<Action("escalate", "critical", e.tenant_id, e.asset_id,
                                 Len(recent), 0)>>
                   ELSE <<>>)

(* ------------------------------- act() --------------------------------- *)
\* The executor of this action awaits a configured collaborator, which may raise.
ExecutorMayRaise(a) ==
    \/ a.type = "create_ticket" /\ tickets
    \/ a.type \in {"send_notification", "escalate"} /\ notifications

\* status of the result map the executor returns.
ExecutorStatus(a) == IF a.type = "escalate" THEN "escalated" ELSE "success"

\* A call on a collaborator, with the arguments the executors differ in.
CollaboratorCall(name, channels, priority, recipients) ==
    [name |-> name, channels |-> channels, priority |-> priority,
     recipients |-> recipients]

\* action.details.get("channels", default)
details_get_channels(a, default) == IF a.channels = <<>> THEN default ELSE a.channels[1]

ExecutorCalls_unguarded(a) ==
    CASE a.type = "create_ticket" ->
           <<CollaboratorCall("create_ticket", <<>>, a.priority, <<>>)>>
      [] a.type = "send_notification" ->
           <<CollaboratorCall("send", details_get_channels(a, <<"email">>),
                              a.priority, <<>>)>>
      [] a.type = "escalate" ->
           <<CollaboratorCall("send", <<"email", "sms">>, "critical",
                              <<"management">>)>>
      [] OTHER -> <<>>

\* The collaborator calls the executor of the action makes: _create_ticket,
\* _send_notification and _escalate call their collaborator when it is configured;
\* the other executors call none.
ExecutorCalls(a) ==
    CASE a.type = "create_ticket" /\ tickets ->
           <<CollaboratorCall("create_ticket", <<>>, a.priority, <<>>)>>
      [] a.type = "send_notification" /\ notifications ->
           <<CollaboratorCall("send", details_get_channels(a, <<"email">>),
                              a.priority, <<>>)>>
      [] a.type = "escalate" /\ notifications ->
           <<CollaboratorCall("send", <<"email", "sms">>, "critical",
                              <<"management">>)>>
      [] OTHER -> <<>>

\* act(), try branch: the executor returned.
act_try(a) ==
    [action |-> [a EXCEPT !.executed = TRUE, !.result = ExecutorStatus(a),
                          !.calls = ExecutorCalls(a)],
     appended |-> TRUE, raises |-> FALSE]

act_except_reraise(a) ==
    [action |-> [a EXCEPT !.result = "error", !.calls = ExecutorCalls(a)],
     appended |-> FALSE, raises |-> TRUE]

\* act(), except branch: the executor raised; the error result is recorded on the
\* action and returned.
act_except(a) ==
    [action |-> [a EXCEPT !.result = "error", !.calls = ExecutorCalls(a)],
     appended |-> FALSE, raises |-> FALSE]

\* _create_incident: the Incident stored under the id "INC-<clock reading>".
NewIncident(a) ==
    [tenant_id |-> a.tenant_id, asset_id |-> a.asset_id, severity |-> a.priority,
     created_at |-> now, status |-> "open"]

(* ------------------------------- Init ---------------------------------- *)
\* State after MaintenanceCopilot.__init__ and EventMonitor.__init__; the three
\* collaborators are all absent (MaintenanceCopilot()) or all present
\* (CopilotService.__init__).
AgentInitWith(capacities, collaborators, settings) ==
    /\ now = 0
    /\ max_events \in capacities
    /\ \E present \in collaborators :
         /\ llm = present
         /\ tickets = present
         /\ notifications = present
    /\ ev = <<>>
    /\ events = <<>>
    /\ event_queue = <<>>
    /\ incidents = <<>>
    /\ action_history = <<>>
    /\ produced = <<>>
    /\ is_running = FALSE
    /\ monitor_running = FALSE
    /\ pc = [t \in Tasks |-> "none"]
    /\ cur = [t \in Tasks |-> 0]
    /\ idx = [t \in Tasks |-> 0]
    /\ trace = <<>>
    /\ stopPending = FALSE
    /\ faults = 0
    /\ inbound = <<>>
    /\ thresholds \in settings

\* The anomaly thresholds of an EventMonitor and of a MaintenanceCopilot.
Thresholds(monitor, copilot) == [monitor |-> monitor, copilot |-> copilot]

\* The thresholds when the constructors are given none.
DefaultThresholds == Thresholds(MonitorAnomalyThreshold, AnomalyThreshold)

AgentInit(capacities, collaborators) ==
    AgentInitWith(capacities, collaborators, {DefaultThresholds})

\* State after WebhookService.__init__, with or without an HTTP client.
ServiceInit(clients) ==
    /\ webhooks = <<>>
    /\ deliveries = <<>>
    /\ client \in clients
    /\ call = [pc |-> "idle"]
    /\ delivery_trace = <<>>
    /\ service_trace = [registrations |-> 0, triggers |-> 0, delivers |-> 0,
                        op |-> <<"none">>]
    /\ tenant_webhooks = [t \in Tenants |-> <<>>]

\* No signing exchange has begun.
SigIdle == sig = [stage |-> "idle"]

InitWith(capacities, collaborators) ==
    /\ AgentInit(capacities, collaborators)
    /\ ServiceInit({TRUE})
    /\ SigIdle

Init == InitWith({DefaultMaxEvents}, BOOLEAN)

(* ------------------------------ observe -------------------------------- *)
\* observe(event): memory.add_event(event), then event_queue.put(event); the put on
\* the unbounded queue does not suspend, so the two happen in one step.
observe(e) ==
    /\ ev' = Append(ev, e)
    /\ events' = add_event(events, Len(ev) + 1, max_events)
    /\ event_queue' = Append(event_queue, Len(ev) + 1)
    /\ produced' = Append(produced, <<>>)
    /\ trace' = Append(trace, NewTrace("queued"))
    /\ UNCHANGED <<now, max_events, llm, tickets, notifications, incidents,
                   action_history, is_running, monitor_running, pc, cur, idx,
                   stopPending, faults>>
    /\ UNCHANGED <<serviceVars, sig, thresholds>>

\* Inputs of the run-loop specification.
LoopTenants == {"tA"}

LoopAnomalies == {<<90, "critical">>}

\* (drift_score in hundredths, drifted feature names)
LoopDrifts == {<<60, <<"f1">>>>}

\* observe_anomaly(tenant, asset, anomaly_score, risk_level): severity is the risk level.
observe_anomaly(tenant, asset, score, risk) ==
    observe(Event("anomaly_detected", tenant, asset, now, risk, score, risk, 0))

\* observe_drift(tenant, asset, drift_score, drifted_features): severity is always
\* "warning".
observe_drift(tenant, asset, drift_score, features) ==
    observe(DriftEvent(tenant, asset, now, "warning", drift_score, features))

rul_kind_bySeverity(rul_hours) ==
    IF rul_hours < RulSevereHours THEN "rul_critical" ELSE "maintenance_due"

\* observe_rul: the event type, by rul_critical_hours.
rul_kind(rul_hours) ==
    IF rul_hours < RulCriticalHours THEN "rul_critical" ELSE "maintenance_due"

\* observe_rul: the severity, by the RUL hours alone.
rul_severity(rul_hours) ==
    IF rul_hours < RulSevereHours THEN "critical"
    ELSE IF rul_hours < RulWarnHours THEN "warning"
    ELSE "info"

\* observe_rul(tenant, asset, rul_hours)
observe_rul(tenant, asset, rul_hours) ==
    observe(Event(rul_kind(rul_hours), tenant, asset, now, rul_severity(rul_hours),
                  0, "normal", rul_hours))

\* A producer calls observe_anomaly.
ObserveAnomaly(limit, tenants, inputs) ==
    /\ Len(ev) < limit
    /\ \E tenant \in tenants, asset \in Assets, in \in inputs :
         observe_anomaly(tenant, asset, in[1], in[2])
    /\ UNCHANGED inbound

\* A producer calls observe_drift.
ObserveDrift(limit, tenants, inputs) ==
    /\ Len(ev) < limit
    /\ \E tenant \in tenants, asset \in Assets, in \in inputs :
         observe_drift(tenant, asset, in[1], in[2])
    /\ UNCHANGED inbound

\* Events a caller builds itself, as the tests do: an anomaly event whose data
\* carry a low score and no risk level; a shape gives its tenant, its severity and
\* the age of its timestamp in hours.
CallerEvents(shapes) ==
    {Event("anomaly_detected", sh[1], asset, now - sh[3], sh[2], 20, "normal", 0) :
       sh \in shapes, asset \in Assets}

\* Events stored by memory.add_event calls of a caller, and the other events.
Stored == {e \in 1..Len(ev) : trace[e].status = "stored"}

Given == (1..Len(ev)) \ Stored

\* observe(event) called with an event the caller built.
ObserveEvent(limit, shapes) ==
    /\ Cardinality(Given) < limit
    /\ \E e \in CallerEvents(shapes) : observe(e)
    /\ UNCHANGED inbound

\* memory.add_event(event) called by a caller: the event is stored, not queued.
CallerAddEvent(limit, shapes) ==
    /\ Cardinality(Stored) < limit
    /\ \E e \in CallerEvents(shapes) :
         /\ ev' = Append(ev, e)
         /\ events' = add_event(events, Len(ev) + 1, max_events)
         /\ produced' = Append(produced, <<>>)
         /\ trace' = Append(trace, NewTrace("stored"))
    /\ UNCHANGED <<now, max_events, llm, tickets, notifications, event_queue,
                   incidents, action_history, is_running, monitor_running, pc, cur,
                   idx, stopPending, faults>>
    /\ UNCHANGED <<serviceVars, sig, inbound, thresholds>>

\* A caller builds an Event and keeps it (to pass it to reason() itself).
CallerNewEvent(limit, shapes) ==
    /\ Cardinality(Given) < limit
    /\ \E e \in CallerEvents(shapes) :
         /\ ev' = Append(ev, e)
         /\ produced' = Append(produced, <<>>)
         /\ trace' = Append(trace, NewTrace("direct"))
    /\ UNCHANGED <<now, max_events, llm, tickets, notifications, events,
                   event_queue, incidents, action_history, is_running,
                   monitor_running, pc, cur, idx, stopPending, faults>>
    /\ UNCHANGED <<serviceVars, sig, inbound, thresholds>>

\* memory.add_event(event) called by a caller with one of the given Event objects.
CallerStoreEvent(limit, candidates) ==
    /\ Cardinality(Stored) < limit
    /\ \E e \in candidates :
         /\ ev' = Append(ev, e)
         /\ events' = add_event(events, Len(ev) + 1, max_events)
         /\ produced' = Append(produced, <<>>)
         /\ trace' = Append(trace, NewTrace("stored"))
    /\ UNCHANGED <<now, max_events, llm, tickets, notifications, event_queue,
                   incidents, action_history, is_running, monitor_running, pc, cur,
                   idx, stopPending, faults>>
    /\ UNCHANGED <<serviceVars, sig, inbound, thresholds>>

\* A caller builds one of the given Event objects and keeps it.
CallerBuildEvent(limit, candidates) ==
    /\ Cardinality(Given) < limit
    /\ \E e \in candidates :
         /\ ev' = Append(ev, e)
         /\ produced' = Append(produced, <<>>)
         /\ trace' = Append(trace, NewTrace("direct"))
    /\ UNCHANGED <<now, max_events, llm, tickets, notifications, events,
                   event_queue, incidents, action_history, is_running,
                   monitor_running, pc, cur, idx, stopPending, faults>>
    /\ UNCHANGED <<serviceVars, sig, inbound, thresholds>>

(* --------------------------- start and stop ---------------------------- *)
\* EventMonitor.start(): sets its flag and schedules a new task running copilot.run().
MonitorStart(tasks) ==
    /\ \E t \in tasks :
         /\ pc[t] = "none"
         /\ \A u \in tasks : u < t => pc[u] # "none"
         /\ pc' = [pc EXCEPT ![t] = "scheduled"]
    /\ monitor_running' = TRUE
    /\ stopPending' = FALSE
    /\ UNCHANGED <<now, max_events, llm, tickets, notifications, ev, events,
                   event_queue, incidents, action_history, produced, is_running,
                   cur, idx, trace, faults>>
    /\ UNCHANGED <<serviceVars, sig, inbound, thresholds>>

\* EventMonitor.stop(): clears its flag and calls copilot.stop().
MonitorStop ==
    /\ monitor_running' = FALSE
    /\ is_running' = FALSE
    /\ stopPending' = TRUE
    /\ trace' = [e \in 1..Len(trace) |->
                   IF trace[e].status = "inflight"
                   THEN [trace[e] EXCEPT !.stopped = TRUE]
                   ELSE trace[e]]
    /\ UNCHANGED <<now, max_events, llm, tickets, notifications, ev, events,
                   event_queue, incidents, action_history, produced, pc, cur, idx,
                   faults>>
    /\ UNCHANGED <<serviceVars, sig, inbound, thresholds>>

(* ------------------------------ run loop ------------------------------- *)
\* A run() task is suspended at one of its await points:
\*   "scheduled"  created by create_task, not yet started
\*   "waiting"    in wait_for(event_queue.get())
\*   "llm"        in reason(), awaiting the LLM collaborator
\*   "exec"       in act(), awaiting the collaborator called by the executor
\*   "done"       returned
\* Code between two await points runs as one step.  An executor that calls no
\* collaborator does not suspend.

\* What an awaited collaborator call may do: return (TRUE) or raise (FALSE).
Outcomes == IF faults < MaxFaults THEN BOOLEAN ELSE {TRUE}

\* run(): "while self.is_running" evaluated after an iteration.
LoopCheck == IF is_running THEN "waiting" ELSE "done"

HasNext_break(actions, i) == i = 0 /\ Len(actions) > 0

\* process_event: "for action in actions" has a further action after the i-th.
HasNext(actions, i) == i < Len(actions)

\* process_event from the call of act() on action i up to the next suspension:
\* acts, history and incidents as they are then, and at = the index of the action
\* whose executor is awaiting a collaborator (0: the list is exhausted).
RECURSIVE ActFrom(_, _, _, _, _)
ActFrom(acts, i, hist, incs, e) ==
    LET a == acts[i]
        out == act_try(a)
        acts2 == [acts EXCEPT ![i] = out.action]
        hist2 == Append(hist, <<e, i>>)
        incs2 == IF a.type = "create_incident"
                 THEN add_incident(incs, now, NewIncident(a))
                 ELSE incs
    IN  IF ExecutorMayRaise(a)
        THEN [acts |-> acts, hist |-> hist, incs |-> incs, at |-> i]
        ELSE IF HasNext(acts, i)
             THEN ActFrom(acts2, i + 1, hist2, incs2, e)
             ELSE [acts |-> acts2, hist |-> hist2, incs |-> incs2, at |-> 0]

\* process_event after act() on action i returned (i = 0: after reason() returned).
AfterAct(acts, i, hist, incs, e) ==
    IF HasNext(acts, i)
    THEN ActFrom(acts, i + 1, hist, incs, e)
    ELSE [acts |-> acts, hist |-> hist, incs |-> incs, at |-> 0]

\* Task t continues with event e in the situation r: suspended in an executor, or
\* at the end of process_event (event.processed = True) and at the loop test.
Continue(t, e, r, tr) ==
    /\ produced' = [produced EXCEPT ![e] = r.acts]
    /\ action_history' = r.hist
    /\ incidents' = r.incs
    /\ IF r.at = 0
       THEN /\ ev' = [ev EXCEPT ![e].processed = TRUE]
            /\ trace' = [trace EXCEPT ![e] = [tr EXCEPT !.status = "handled"]]
            /\ pc' = [pc EXCEPT ![t] = LoopCheck]
            /\ cur' = [cur EXCEPT ![t] = 0]
            /\ idx' = [idx EXCEPT ![t] = 0]
       ELSE /\ ev' = ev
            /\ trace' = [trace EXCEPT ![e] = [tr EXCEPT !.status = "inflight"]]
            /\ pc' = [pc EXCEPT ![t] = "exec"]
            /\ cur' = [cur EXCEPT ![t] = e]
            /\ idx' = [idx EXCEPT ![t] = r.at]

\* An exception leaves process_event: run() catches and logs it and goes to the
\* loop test; event.processed is not set.
Abort(t, e, acts, tr) ==
    /\ produced' = [produced EXCEPT ![e] = acts]
    /\ trace' = [trace EXCEPT ![e] = [tr EXCEPT !.status = "handled"]]
    /\ pc' = [pc EXCEPT ![t] = LoopCheck]
    /\ cur' = [cur EXCEPT ![t] = 0]
    /\ idx' = [idx EXCEPT ![t] = 0]
    /\ UNCHANGED <<ev, action_history, incidents>>

\* Event id is in the memory buffer.
InMemory(id) == \E k \in 1..Len(events) : events[k] = id

\* The critical events, other than event id itself, that memory holds for the
\* (tenant, asset) of event id with a timestamp in the last 24 hours.
PriorCritical(id) ==
    Cardinality({i \in 1..Len(ev) :
                   /\ i # id
                   /\ InMemory(i)
                   /\ ev[i].tenant_id = ev[id].tenant_id
                   /\ ev[i].asset_id = ev[id].asset_id
                   /\ ev[i].severity = "critical"
                   /\ ev[i].timestamp >= now - WindowHours})

\* Memory holds event id itself as a critical event of the last 24 hours.
SelfCritical(id) ==
    /\ InMemory(id)
    /\ ev[id].severity = "critical"
    /\ ev[id].timestamp >= now - WindowHours

\* History of event id once reason(id) has read memory.
Reasoned(id, how) ==
    [trace[id] EXCEPT !.reason = how, !.prior = PriorCritical(id),
                      !.self = SelfCritical(id)]

\* run() starts executing: sets is_running, passes the first loop test and
\* suspends in wait_for(event_queue.get()).
TaskBegin(t) ==
    /\ pc[t] = "scheduled"
    /\ is_running' = TRUE
    /\ pc' = [pc EXCEPT ![t] = "waiting"]
    /\ UNCHANGED <<now, max_events, llm, tickets, notifications, ev, events,
                   event_queue, incidents, action_history, produced,
                   monitor_running, cur, idx, trace, stopPending, faults>>
    /\ UNCHANGED <<serviceVars, sig, inbound, thresholds>>

\* wait_for times out on an empty queue and the loop test finds the flag cleared
\* (with the flag set the task re-enters the same wait).
TaskTimeout(t) ==
    /\ pc[t] = "waiting"
    /\ event_queue = <<>>
    /\ ~is_running
    /\ pc' = [pc EXCEPT ![t] = "done"]
    /\ UNCHANGED <<now, max_events, llm, tickets, notifications, ev, events,
                   event_queue, incidents, action_history, produced, is_running,
                   monitor_running, cur, idx, trace, stopPending, faults>>
    /\ UNCHANGED <<serviceVars, sig, inbound, thresholds>>

\* event_queue.get() returns the oldest queued event and process_event runs:
\* reason() reads memory and either awaits the LLM collaborator (the action list it
\* will build from what it read is kept) or returns, and the act() calls follow.
TaskDequeue(t) ==
    /\ pc[t] = "waiting"
    /\ event_queue # <<>>
    /\ LET e == Head(event_queue)
       IN  /\ event_queue' = Tail(event_queue)
           /\ IF llm /\ CallsLLM(ev[e])
              THEN /\ produced' = [produced EXCEPT ![e] = reason(ev[e])]
                   /\ trace' = [trace EXCEPT ![e] =
                                  [Reasoned(e, "pending") EXCEPT !.status = "inflight"]]
                   /\ pc' = [pc EXCEPT ![t] = "llm"]
                   /\ cur' = [cur EXCEPT ![t] = e]
                   /\ UNCHANGED <<ev, action_history, incidents, idx>>
              ELSE Continue(t, e, AfterAct(reason(ev[e]), 0, action_history,
                                           incidents, e), Reasoned(e, "ok"))
    /\ UNCHANGED <<now, max_events, llm, tickets, notifications, events,
                   is_running, monitor_running, stopPending, faults>>
    /\ UNCHANGED <<serviceVars, sig, inbound, thresholds>>

\* The LLM collaborator returns (reason() returns its list and the act() calls
\* follow) or raises (the exception leaves reason() and process_event).
TaskLLM(t) ==
    /\ pc[t] = "llm"
    /\ LET e == cur[t]
       IN  \E ok \in Outcomes :
             /\ faults' = IF ok THEN faults ELSE faults + 1
             /\ IF ok
                THEN Continue(t, e, AfterAct(produced[e], 0, action_history,
                                             incidents, e),
                              [trace[e] EXCEPT !.reason = "ok"])
                ELSE Abort(t, e, <<>>, [trace[e] EXCEPT !.reason = "raised"])
    /\ UNCHANGED <<now, max_events, llm, tickets, notifications, events,
                   event_queue, is_running, monitor_running, stopPending>>
    /\ UNCHANGED <<serviceVars, sig, inbound, thresholds>>

\* The collaborator called by the executor of action idx returns or raises; act()
\* finishes and process_event goes on.
TaskExec(t) ==
    /\ pc[t] = "exec"
    /\ LET e == cur[t]
           i == idx[t]
           a == produced[e][i]
       IN  \E ok \in Outcomes :
             LET out == IF ok THEN act_try(a) ELSE act_except(a)
                 acts == [produced[e] EXCEPT ![i] = out.action]
                 hist == IF out.appended
                         THEN Append(action_history, <<e, i>>)
                         ELSE action_history
             IN  /\ faults' = IF ok THEN faults ELSE faults + 1
                 /\ IF out.raises
                    THEN Abort(t, e, acts, trace[e])
                    ELSE Continue(t, e, AfterAct(acts, i, hist, incidents, e),
                                  trace[e])
    /\ UNCHANGED <<now, max_events, llm, tickets, notifications, events,
                   event_queue, is_running, monitor_running, stopPending>>
    /\ UNCHANGED <<serviceVars, sig, inbound, thresholds>>

DirectReason_marks ==
    /\ \E e \in 1..Len(ev) :
         /\ trace[e].status = "direct"
         /\ trace[e].reason = "none"
         /\ \E ok \in (IF llm /\ CallsLLM(ev[e]) THEN Outcomes ELSE {TRUE}) :
              /\ faults' = IF ok THEN faults ELSE faults + 1
              /\ produced' = [produced EXCEPT ![e] = IF ok THEN reason(ev[e]) ELSE <<>>]
              /\ trace' = [trace EXCEPT ![e] =
                             Reasoned(e, IF ok THEN "ok" ELSE "raised")]
              /\ ev' = [ev EXCEPT ![e].processed = TRUE]
    /\ UNCHANGED <<now, max_events, llm, tickets, notifications, events,
                   event_queue, incidents, action_history, is_running,
                   monitor_running, pc, cur, idx, stopPending>>
    /\ UNCHANGED <<serviceVars, sig, inbound, thresholds>>

\* reason(event) awaited by a caller on an event it built: the call returns the
\* action list, or the LLM collaborator raises and so does the call.
DirectReason ==
    /\ \E e \in 1..Len(ev) :
         /\ trace[e].status = "direct"
         /\ trace[e].reason = "none"
         /\ \E ok \in (IF llm /\ CallsLLM(ev[e]) THEN Outcomes ELSE {TRUE}) :
              /\ faults' = IF ok THEN faults ELSE faults + 1
              /\ produced' = [produced EXCEPT ![e] = IF ok THEN reason(ev[e]) ELSE <<>>]
              /\ trace' = [trace EXCEPT ![e] =
                             Reasoned(e, IF ok THEN "ok" ELSE "raised")]
    /\ UNCHANGED <<now, max_events, llm, tickets, notifications, ev, events,
                   event_queue, incidents, action_history, is_running,
                   monitor_running, pc, cur, idx, stopPending>>
    /\ UNCHANGED <<serviceVars, sig, inbound, thresholds>>

\* The clock advances.
Advance ==
    /\ \E d \in TickHours : now + d <= MaxNow /\ now' = now + d
    /\ UNCHANGED <<max_events, llm, tickets, notifications, ev, events, event_queue,
                   incidents, action_history, produced, is_running,
                   monitor_running, pc, cur, idx, trace, stopPending, faults>>
    /\ UNCHANGED <<serviceVars, sig, inbound, thresholds>>

(* --------------------------- specifications ---------------------------- *)
\* The run loop: producers, EventMonitor.start()/stop() and the run() tasks.
Next ==
    \/ ObserveAnomaly(MaxEvents, LoopTenants, LoopAnomalies)
    \/ ObserveDrift(MaxEvents, LoopTenants, LoopDrifts)
    \/ MonitorStart(Tasks)
    \/ MonitorStop
    \/ \E t \in Tasks : TaskBegin(t)
    \/ \E t \in Tasks : TaskTimeout(t)
    \/ \E t \in Tasks : TaskDequeue(t)
    \/ \E t \in Tasks : TaskLLM(t)
    \/ \E t \in Tasks : TaskExec(t)

Spec == Init /\ [][Next]_vars

\* Escalation: a caller stores critical events for one asset (of either tenant,
\* recent or older than the window), then an event of some severity is passed to
\* reason() by the caller or observed and taken by the run loop.
EscStored ==
    {<<"tA", "critical", 0>>, <<"tA", "critical", 36>>, <<"tB", "critical", 0>>}

EscGiven == {<<"tA", sev, 0>> : sev \in {"info", "critical"}}

\* The copilot CopilotService builds, its monitor started once.
EscInit == InitWith({DefaultMaxEvents}, {TRUE})

EscTasks == {1}

EscNext ==
    \/ CallerAddEvent(MaxStored, EscStored)
    \/ CallerNewEvent(MaxGiven, EscGiven)
    \/ ObserveEvent(MaxGiven, EscGiven)
    \/ DirectReason
    \/ MonitorStart(EscTasks)
    \/ \E t \in EscTasks : TaskBegin(t)
    \/ \E t \in EscTasks : TaskDequeue(t)
    \/ \E t \in EscTasks : TaskExec(t)

SpecEsc == EscInit /\ [][EscNext]_vars

\* The event buffer alone, for every capacity up to MaxK.
MemShapes == {<<tenant, sev, 0>> : tenant \in Tenants, sev \in {"info", "critical"}}

MemInit == InitWith(0..MaxK, BOOLEAN)

MemNext ==
    \/ CallerAddEvent(MaxAdds, MemShapes)
    \/ Advance

SpecMem == MemInit /\ [][MemNext]_vars

\* The reasoning rules: a caller stores critical events of one asset, builds an
\* anomaly event (score in hundredths, risk level, severity), a RUL event
\* (rul_hours, severity) or a drift event (severity, drift score in hundredths,
\* feature names) and calls reason() on it.
ReasonStored == {<<"tA", "critical", 0>>}

ReasonInputs ==
    {Event("anomaly_detected", "tA", "a1", now, in[3], in[1], in[2], 0) :
       in \in {<<90, "critical", "critical">>, <<90, "normal", "info">>,
               <<70, "normal", "warning">>, <<69, "normal", "critical">>,
               <<20, "warning", "info">>, <<20, "normal", "info">>,
               <<90, "normal", "normal">>}}
    \cup
    {Event("rul_critical", "tA", "a1", now, in[2], 0, "normal", in[1]) :
       in \in {<<12, "critical">>, <<30, "info">>, <<40, "warning">>}}
    \cup
    {Event("maintenance_due", "tA", "a1", now, "info", 0, "normal", 60)}
    \cup
    {DriftEvent("tA", "a1", now, sev, in[1], in[2]) :
       sev \in {"info", "warning", "critical"},
       in \in {<<0, <<>>>>, <<60, <<"f1", "f2">>>>}}

ReasonNext ==
    \/ CallerAddEvent(MaxStored, ReasonStored)
    \/ CallerBuildEvent(MaxGiven, ReasonInputs)
    \/ DirectReason

SpecReason == Init /\ [][ReasonNext]_vars

\* reason() called by a caller while the agent holds state: anomalies were observed
\* and handled by one run() task (incidents, action history), others still wait in
\* the queue.
FrameInputs ==
    {Event("anomaly_detected", "tA", "a1", now, "critical", 90, "critical", 0),
     Event("anomaly_detected", "tA", "a1", now, "info", 20, "normal", 0),
     DriftEvent("tA", "a1", now, "warning", 60, <<"f1">>)}

FrameNext ==
    \/ ObserveAnomaly(MaxEvents, LoopTenants, LoopAnomalies)
    \/ MonitorStart(EscTasks)
    \/ \E t \in EscTasks : TaskBegin(t)
    \/ \E t \in EscTasks : TaskDequeue(t)
    \/ \E t \in EscTasks : TaskLLM(t)
    \/ \E t \in EscTasks : TaskExec(t)
    \/ CallerBuildEvent(MaxEvents + 1, FrameInputs)
    \/ DirectReason

SpecFrame == Init /\ [][FrameNext]_vars

\* Queries on the event buffer: a caller stores events of two tenants, two assets
\* and two types, timestamped now, 24 or 36 hours ago, in any order.
QueryAssets == {"a1", "a2"}

QueryTypes == {"anomaly_detected", "drift_detected"}

QueryInputs ==
    {Event(in[1], in[2], in[3], now - in[4], "info", 0, "normal", 0) :
       in \in {<<"anomaly_detected", "tA", "a1", 0>>,
               <<"anomaly_detected", "tA", "a1", 36>>,
               <<"anomaly_detected", "tA", "a2", 0>>,
               <<"drift_detected", "tA", "a1", 0>>,
               <<"drift_detected", "tA", "a2", 24>>,
               <<"anomaly_detected", "tB", "a1", 0>>}}

QueryNext == CallerStoreEvent(MaxAdds, QueryInputs)

SpecQuery == InitWith({DefaultMaxEvents}, {TRUE}) /\ [][QueryNext]_vars

(* ----------------------------- EventMonitor ---------------------------- *)
\* A call that forwards nothing leaves the copilot as it is.
NotForwarded ==
    /\ UNCHANGED <<now, max_events, llm, tickets, notifications, ev, events,
                   event_queue, incidents, action_history, produced, is_running,
                   monitor_running, pc, cur, idx, trace, stopPending, faults>>
    /\ UNCHANGED <<serviceVars, sig, thresholds>>

\* An entry of the call log: the call, its argument and how it ended ("forwarded":
\* it called observe_*; "skipped": it returned without; "raised").
Inbound(name, in, outcome) == [call |-> name, input |-> in, outcome |-> outcome]

\* Prediction results passed to on_prediction: anomaly results (score in
\* hundredths, risk level; a missing key reads as 0 or "normal"), RUL results
\* (rul_estimate in hours; a missing key reads as 999) and a result of a kind the
\* monitor does not know.
PredictionInputs ==
    {[kind |-> "anomaly", score |-> in[1], risk |-> in[2], rul |-> 999] :
       in \in {<<69, "normal">>, <<70, "normal">>, <<20, "warning">>,
               <<20, "critical">>, <<0, "normal">>}}
    \cup {[kind |-> "rul", score |-> 0, risk |-> "normal", rul |-> r] :
            r \in {5, 24, 48, 49, 999}}
    \cup {[kind |-> "log", score |-> 90, risk |-> "critical", rul |-> 5]}

PredictionGate_lt(in) ==
    \/ /\ in.kind = "anomaly"
       /\ (in.score >= thresholds.monitor \/ in.risk \in {"warning", "critical"})
    \/ /\ in.kind = "rul"
       /\ in.rul < RulWarningHours

\* on_prediction: the result is forwarded to the copilot.
PredictionGate(in) ==
    \/ /\ in.kind = "anomaly"
       /\ (in.score >= thresholds.monitor \/ in.risk \in {"warning", "critical"})
    \/ /\ in.kind = "rul"
       /\ in.rul <= RulWarningHours

\* EventMonitor.on_prediction(tenant_id, asset_id, prediction_type, result)
OnPredictionWith(inputs) ==
    /\ Len(inbound) < MaxCalls
    /\ \E tenant \in LoopTenants, asset \in Assets, in \in inputs :
         IF PredictionGate(in)
         THEN /\ inbound' = Append(inbound, Inbound("on_prediction", in, "forwarded"))
              /\ IF in.kind = "anomaly"
                 THEN observe_anomaly(tenant, asset, in.score, in.risk)
                 ELSE observe_rul(tenant, asset, in.rul)
         ELSE /\ inbound' = Append(inbound, Inbound("on_prediction", in, "skipped"))
              /\ NotForwarded

OnPrediction == OnPredictionWith(PredictionInputs)

\* Drift results passed to on_drift_detected: overall_drift_score in hundredths and
\* the drifted_features list, of names or of dicts holding a name under "feature"
\* (a missing key reads as the empty list).
DriftInputs ==
    {[score |-> sc, form |-> "names", names |-> n] :
       sc \in {0, 49, 50}, n \in {<<>>, <<"f1">>, <<"f1", "f2">>}}
    \cup {[score |-> sc, form |-> "dicts", names |-> <<"f1", "f2">>] : sc \in {0, 50}}

\* on_drift_detected: the result is to be forwarded.
DriftGate(in) ==
    in.score >= DriftThreshold \/ Len(in.names) >= MinDriftedFeatures

\* EventMonitor.on_drift_detected(tenant_id, asset_id, drift_result): the argument
\* list of observe_drift reads drifted[0], an IndexError on an empty list.
OnDriftDetected ==
    /\ Len(inbound) < MaxCalls
    /\ \E tenant \in LoopTenants, asset \in Assets, in \in DriftInputs :
         IF DriftGate(in)
         THEN IF Len(in.names) = 0
              THEN /\ inbound' = Append(inbound, Inbound("on_drift_detected", in, "raised"))
                   /\ NotForwarded
              ELSE /\ inbound' = Append(inbound,
                                        Inbound("on_drift_detected", in, "forwarded"))
                   /\ observe_drift(tenant, asset, in.score, in.names)
         ELSE /\ inbound' = Append(inbound, Inbound("on_drift_detected", in, "skipped"))
              /\ NotForwarded

\* RUL predictions (hours) a producer passes to observe_rul.
RulInputs == {5, 9, 10, 23, 24, 49, 50, 60}

\* A producer calls observe_rul.
ObserveRul ==
    /\ Len(inbound) < MaxCalls
    /\ \E tenant \in LoopTenants, asset \in Assets, r \in RulInputs :
         /\ inbound' = Append(inbound, Inbound("observe_rul", [rul |-> r], "forwarded"))
         /\ observe_rul(tenant, asset, r)

MonitorNext ==
    \/ OnPrediction
    \/ OnDriftDetected
    \/ ObserveRul

SpecMonitor == InitWith({DefaultMaxEvents}, {TRUE}) /\ [][MonitorNext]_vars

(* --------------------------- WebhookService ---------------------------- *)
WebhookIds == {"w1", "w2"}

\* WebhookEventType values and the event lists of a config (empty: all events).
EventNames == {"alert.created", "drift.detected"}

\* The (active, events) settings of the configs registered: active for all events,
\* active for one event, inactive.
Settings == {<<TRUE, {}>>, <<TRUE, {"alert.created"}>>, <<FALSE, {}>>}

\* What a POST attempt does: 0 is a transport exception, otherwise the status code.
PostOutcomes == {0, 200, 302, 400, 503}

WebhookConfig(id, filter, active, retry_count) ==
    [id |-> id, events |-> filter, active |-> active, retry_count |-> retry_count]

\* register_webhook: self.webhooks[config.id] = config; a known id keeps its place.
register_webhook(reg, config) ==
    IF \E i \in 1..Len(reg) : reg[i].id = config.id
    THEN [i \in 1..Len(reg) |-> IF reg[i].id = config.id THEN config ELSE reg[i]]
    ELSE Append(reg, config)

\* unregister_webhook: del self.webhooks[webhook_id] when present.
unregister_webhook(reg, id) == SelectSeq(reg, LAMBDA w : w.id # id)

\* The slot a deleted key leaves in the dict's entry table: the values() iterator of
\* a trigger() call in flight walks the table by index and steps over it.
Deleted == WebhookConfig("", {}, FALSE, 0)

\* The configs of the dict: the slots that are not deleted.
Live(reg) == SelectSeq(reg, LAMBDA w : w # Deleted)

\* unregister_webhook while a values() iterator is open: the slot of the key is
\* emptied and the slots after it keep their index.
unregister_in_place(reg, id) ==
    [i \in 1..Len(reg) |-> IF reg[i].id = id THEN Deleted ELSE reg[i]]

Matches_ignoreactive(w, event) == w.events = {} \/ event \in w.events

\* trigger(): the webhook is active and its event list is empty or holds the event.
Matches(w, event) == w.active /\ (w.events = {} \/ event \in w.events)

\* The WebhookDelivery _deliver starts with (response_code 0: None).
NewDelivery(w, payload) ==
    [webhook_id |-> w.id, event_type |-> payload.event,
     tenant_id |-> payload.tenant_id, status |-> "pending",
     attempts |-> 0, response_code |-> 0, delivered_at |-> FALSE]

\* httpx Response.is_success
is_success(code) == code >= 200 /\ code < 300

after_post_raise(d, attempt, retry, o) ==
    IF o = 0
    THEN [delivery |-> d, next |-> "raise"]
    ELSE IF is_success(o)
         THEN [delivery |-> [d EXCEPT !.response_code = o, !.status = "success",
                                    !.delivered_at = TRUE],
               next |-> "break"]
         ELSE IF o >= 500
              THEN [delivery |-> [d EXCEPT !.response_code = o], next |-> "sleep"]
              ELSE [delivery |-> [d EXCEPT !.response_code = o, !.status = "failed"],
                    next |-> "break"]

after_post_noretry(d, attempt, retry, o) ==
    IF o = 0
    THEN [delivery |-> [d EXCEPT !.status = "failed"],
          next |-> IF attempt < retry - 1 THEN "sleep" ELSE "loop"]
    ELSE IF is_success(o)
         THEN [delivery |-> [d EXCEPT !.response_code = o, !.status = "success",
                                    !.delivered_at = TRUE],
               next |-> "break"]
         ELSE [delivery |-> [d EXCEPT !.response_code = o, !.status = "failed"],
               next |-> "break"]

after_post_sticky(d, attempt, retry, o) ==
    IF o = 0
    THEN [delivery |-> [d EXCEPT !.status = "failed"],
          next |-> IF attempt < retry - 1 THEN "sleep" ELSE "loop"]
    ELSE IF is_success(o)
         THEN [delivery |-> IF d.status = "pending"
                            THEN [d EXCEPT !.response_code = o, !.status = "success",
                                           !.delivered_at = TRUE]
                            ELSE [d EXCEPT !.response_code = o],
               next |-> "break"]
         ELSE IF o >= 500
              THEN [delivery |-> [d EXCEPT !.response_code = o], next |-> "sleep"]
              ELSE [delivery |-> [d EXCEPT !.response_code = o, !.status = "failed"],
                    next |-> "break"]

\* The argument of asyncio.sleep after the attempt of index attempt (0-based), in
\* multiples of retry_delay.
backoff(attempt) == attempt + 1

\* _deliver, the body of one attempt once the POST has returned or raised: the
\* delivery as updated, and whether the loop breaks, sleeps before its next
\* iteration, or goes to its next iteration at once.
after_post(d, attempt, retry, o) ==
    IF o = 0
    THEN [delivery |-> [d EXCEPT !.status = "failed"],
          next |-> IF attempt < retry - 1 THEN "sleep" ELSE "loop"]
    ELSE IF is_success(o)
         THEN [delivery |-> [d EXCEPT !.response_code = o, !.status = "success",
                                    !.delivered_at = TRUE],
               next |-> "break"]
         ELSE IF o >= 500
              THEN [delivery |-> [d EXCEPT !.response_code = o], next |-> "sleep"]
              ELSE [delivery |-> [d EXCEPT !.response_code = o, !.status = "failed"],
                    next |-> "break"]

finish_keep(d) == d

\* _deliver after the loop: a delivery still pending is failed.
finish(d) == IF d.status = "pending" THEN [d EXCEPT !.status = "failed"] ELSE d

\* The result map _deliver returns; delivery is the place of the record in the list.
Result(d, n) ==
    [status |-> d.status, delivery |-> n, attempts |-> d.attempts,
     response_code |-> d.response_code]

\* History of a delivery record: the outcomes of its POST attempts, the
\* retry_count of its webhook, and whether it went through the attempt loop.
DeliveryTrace(responses, retry, looped) ==
    [responses |-> responses, retry_count |-> retry, looped |-> looped]

\* trigger() from the webhook at place pos of the registry up to the next
\* suspension: in the first POST of a delivery, or returned.  A delivery without a
\* client (mocked) or with no attempt to make ends without suspending.  c holds the
\* locals of the call: the event name and tenant of full_payload, the size of the
\* dict when the values() iterator was made, and the registry at that time.
RECURSIVE TriggerFrom(_, _, _, _, _, _, _)
TriggerFrom(c, pos, results, log, dtrace, started, posted) ==
    IF pos > Len(webhooks)
    THEN [call |-> [pc |-> "returned", event |-> c.event, tenant_id |-> c.tenant_id,
                    used |-> c.used, registered |-> c.registered,
                    results |-> results, posted |-> posted],
          log |-> log, dtrace |-> dtrace, started |-> started]
    ELSE LET w == webhooks[pos]
             d == NewDelivery(w, c)
         IN  IF ~Matches(w, c.event)
             THEN TriggerFrom(c, pos + 1, results, log, dtrace, started, posted)
             ELSE IF ~client
                  THEN TriggerFrom(c, pos + 1,
                                   Append(results, [status |-> "mocked",
                                                    delivery |-> Len(log) + 1]),
                                   Append(log, [d EXCEPT !.status = "mocked"]),
                                   Append(dtrace, DeliveryTrace(<<>>, w.retry_count, FALSE)),
                                   started + 1, posted)
                  ELSE IF w.retry_count <= 0
                       THEN TriggerFrom(c, pos + 1,
                                        Append(results, Result(finish(d), Len(log) + 1)),
                                        Append(log, finish(d)),
                                        Append(dtrace,
                                               DeliveryTrace(<<>>, w.retry_count, TRUE)),
                                        started + 1, posted)
                       ELSE [call |-> [pc |-> "post", event |-> c.event,
                                       tenant_id |-> c.tenant_id, used |-> c.used,
                                       registered |-> c.registered,
                                       pos |-> pos, webhook |-> w,
                                       attempt |-> 0,
                                       delivery |-> [d EXCEPT !.attempts = 1],
                                       results |-> results, responses |-> <<>>,
                                       delay |-> 0,
                                       posted |-> posted \cup {pos}],
                             log |-> log, dtrace |-> dtrace, started |-> started + 1]

\* The attempt loop of the delivery in flight has ended: the record is appended,
\* the result returned to trigger(), which appends it and asks the values() iterator
\* for the next webhook; the iterator raises RuntimeError when the dict has changed
\* size since it was made.
Finalize(d, responses) ==
    LET w == call.webhook
        done == finish(d)
        results == Append(call.results, Result(done, Len(deliveries) + 1))
        log == Append(deliveries, done)
        dtrace == Append(delivery_trace, DeliveryTrace(responses, w.retry_count, TRUE))
    IN  IF Len(Live(webhooks)) # call.used
        THEN [call |-> [call EXCEPT !.pc = "raised", !.results = results,
                                    !.responses = responses],
              log |-> log, dtrace |-> dtrace, started |-> service_trace.delivers]
        ELSE TriggerFrom(call, call.pos + 1, results, log, dtrace,
                         service_trace.delivers, call.posted)

\* The next iteration of "for attempt in range(retry_count)", or the end of the loop.
NextAttempt(d, responses) ==
    LET w == call.webhook
    IN  IF call.attempt + 1 < w.retry_count
        THEN [call |-> [call EXCEPT !.pc = "post", !.attempt = call.attempt + 1,
                                    !.delivery = [d EXCEPT !.attempts = call.attempt + 2],
                                    !.responses = responses],
              log |-> deliveries, dtrace |-> delivery_trace,
              started |-> service_trace.delivers]
        ELSE Finalize(d, responses)

\* The service goes on as the step r says.
Proceed(r) ==
    /\ call' = r.call
    /\ deliveries' = r.log
    /\ delivery_trace' = r.dtrace

\* The trigger() calls of a behaviour: one, made once the registry is set up.
TriggerCalls == {1}

\* register_webhook(config), called before trigger().
RegisterWebhook ==
    /\ call.pc = "idle"
    /\ service_trace.registrations < MaxRegistrations
    /\ \E id \in WebhookIds, setting \in Settings, retry \in 0..MaxRetry :
         webhooks' = register_webhook(webhooks,
                                      WebhookConfig(id, setting[2], setting[1], retry))
    /\ service_trace' = [service_trace EXCEPT !.registrations = @ + 1]
    /\ UNCHANGED <<deliveries, client, call, delivery_trace, tenant_webhooks,
                   agentVars, sig>>

\* unregister_webhook(webhook_id), called before trigger().
UnregisterWebhook ==
    /\ call.pc = "idle"
    /\ \E i \in 1..Len(webhooks) :
         webhooks' = unregister_webhook(webhooks, webhooks[i].id)
    /\ UNCHANGED <<deliveries, client, call, delivery_trace, service_trace,
                   tenant_webhooks, agentVars, sig>>

\* trigger(event_type, tenant_id, payload) is called and runs to its first suspension.
Trigger ==
    /\ call.pc = "idle"
    /\ service_trace.triggers + 1 \in TriggerCalls
    /\ \E event \in EventNames, tenant \in Tenants :
         LET c == [event |-> event, tenant_id |-> tenant,
                   used |-> Len(Live(webhooks)), registered |-> webhooks]
             r == TriggerFrom(c, 1, <<>>, deliveries, delivery_trace,
                              service_trace.delivers, {})
         IN  /\ Proceed(r)
             /\ service_trace' = [service_trace EXCEPT !.triggers = @ + 1,
                                                       !.delivers = r.started]
    /\ UNCHANGED <<webhooks, client, tenant_webhooks, agentVars, sig>>

\* The awaited client.post returns a response or raises, as one of outcomes.
PostReturnsWith(outcomes) ==
    /\ call.pc = "post"
    /\ \E o \in outcomes :
         LET w == call.webhook
             out == after_post(call.delivery, call.attempt, w.retry_count, o)
             responses == Append(call.responses, o)
             r == CASE out.next = "break" -> Finalize(out.delivery, responses)
                    [] out.next = "loop" -> NextAttempt(out.delivery, responses)
                    [] out.next = "sleep" ->
                         [call |-> [call EXCEPT !.pc = "sleep",
                                                !.delay = backoff(call.attempt),
                                                !.delivery = out.delivery,
                                                !.responses = responses],
                          log |-> deliveries, dtrace |-> delivery_trace,
                          started |-> service_trace.delivers]
                    [] OTHER ->
                         [call |-> [call EXCEPT !.pc = "raised",
                                                !.responses = responses],
                          log |-> deliveries, dtrace |-> delivery_trace,
                          started |-> service_trace.delivers]
         IN  /\ Proceed(r)
             /\ service_trace' = [service_trace EXCEPT !.delivers = r.started]
    /\ UNCHANGED <<webhooks, client, tenant_webhooks, agentVars, sig>>

PostReturns == PostReturnsWith(PostOutcomes)

\* The awaited asyncio.sleep(retry_delay * (attempt + 1)) returns.
SleepEnds ==
    /\ call.pc = "sleep"
    /\ LET r == NextAttempt(call.delivery, call.responses)
       IN  /\ Proceed(r)
           /\ service_trace' = [service_trace EXCEPT !.delivers = r.started]
    /\ UNCHANGED <<webhooks, client, tenant_webhooks, agentVars, sig>>

\* Webhook delivery: the registry is set up, then trigger() is called.
ServiceSpecInit ==
    /\ AgentInit({DefaultMaxEvents}, {TRUE})
    /\ ServiceInit(BOOLEAN)
    /\ SigIdle

ServiceNext ==
    \/ RegisterWebhook
    \/ UnregisterWebhook
    \/ Trigger
    \/ PostReturns
    \/ SleepEnds

SpecService == ServiceSpecInit /\ [][ServiceNext]_vars

(* ------------------------- a single run loop --------------------------- *)
\* Producers, one run() task started once by EventMonitor.start(), and
\* EventMonitor.stop(); the buffer holds MaxEvents events or the default number.
SingleInit == InitWith({MaxEvents, DefaultMaxEvents}, BOOLEAN)

SingleNext ==
    \/ ObserveAnomaly(MaxEvents + 1, LoopTenants, LoopAnomalies)
    \/ ObserveDrift(MaxEvents + 1, LoopTenants, LoopDrifts)
    \/ MonitorStart(EscTasks)
    \/ MonitorStop
    \/ \E t \in EscTasks : TaskBegin(t)
    \/ \E t \in EscTasks : TaskTimeout(t)
    \/ \E t \in EscTasks : TaskDequeue(t)
    \/ \E t \in EscTasks : TaskLLM(t)
    \/ \E t \in EscTasks : TaskExec(t)

SpecSingle == SingleInit /\ [][SingleNext]_vars

(* ------------------- the two anomaly thresholds ------------------------- *)
\* The values the two constructors are given for anomaly_threshold, in hundredths.
ThresholdValues == {50, 70}

GateThresholds == {Thresholds(m, c) : m \in ThresholdValues, c \in ThresholdValues}

\* Anomaly results passed to on_prediction: scores below, between and above the
\* threshold values at risk level normal, and a low score at risk level warning.
GateInputs ==
    {[kind |-> "anomaly", score |-> in[1], risk |-> in[2], rul |-> 999] :
       in \in {<<40, "normal">>, <<60, "normal">>, <<80, "normal">>,
               <<40, "warning">>}}

\* A monitor and a copilot built with any pair of thresholds; predictions arrive
\* and one run() task handles the events.
GatesInit ==
    /\ AgentInitWith({DefaultMaxEvents}, BOOLEAN, GateThresholds)
    /\ ServiceInit({TRUE})
    /\ SigIdle

GatesNext ==
    \/ OnPredictionWith(GateInputs)
    \/ MonitorStart(EscTasks)
    \/ \E t \in EscTasks : TaskBegin(t)
    \/ \E t \in EscTasks : TaskDequeue(t)
    \/ \E t \in EscTasks : TaskLLM(t)
    \/ \E t \in EscTasks : TaskExec(t)

SpecGates == GatesInit /\ [][GatesNext]_vars

(* ------------------------ act() called by a caller ---------------------- *)
MaxActs == 2

\* The event the caller's actions are about.
ActEvents == {Event("anomaly_detected", "tA", "a1", now, "critical", 90, "critical", 0)}

\* The Action objects a caller builds: one of each type, and a notification with
\* and without details["channels"].
ActInputs(e) ==
    {Action(type, "high", e.tenant_id, e.asset_id, 0, 0) :
       type \in {"create_incident", "create_ticket", "send_notification",
                 "suggest_action", "schedule_maintenance", "escalate"}}
    \cup {WithChannels(Action("send_notification", "high", e.tenant_id, e.asset_id,
                              0, 0),
                       <<"slack">>)}

\* A caller builds an Action about an event it holds and awaits act(action); the
\* collaborator the executor calls returns or raises.
CallerAct ==
    /\ \E e \in 1..Len(ev) :
         /\ trace[e].status = "direct"
         /\ Len(produced[e]) < MaxActs
         /\ \E a \in ActInputs(ev[e]) :
              \E ok \in (IF ExecutorMayRaise(a) THEN Outcomes ELSE {TRUE}) :
                LET out == IF ok THEN act_try(a) ELSE act_except(a)
                    i == Len(produced[e]) + 1
                IN  /\ produced' = [produced EXCEPT ![e] = Append(@, out.action)]
                    /\ action_history' = IF out.appended
                                         THEN Append(action_history, <<e, i>>)
                                         ELSE action_history
                    /\ incidents' = IF a.type = "create_incident"
                                    THEN add_incident(incidents, now, NewIncident(a))
                                    ELSE incidents
                    /\ faults' = IF ok THEN faults ELSE faults + 1
    /\ UNCHANGED <<now, max_events, llm, tickets, notifications, ev, events,
                   event_queue, is_running, monitor_running, pc, cur, idx, trace,
                   stopPending>>
    /\ UNCHANGED <<serviceVars, sig, inbound, thresholds>>

\* The caller holds one event and acts on up to MaxActs actions about it.
ActNext ==
    \/ CallerBuildEvent(1, ActEvents)
    \/ CallerAct
    \/ Advance

SpecAct == Init /\ [][ActNext]_vars

(* ------------- registry changes while trigger() is suspended ------------ *)
\* The configs other tasks register while a trigger() call is suspended.
ConcurrentSettings == {<<TRUE, {}>>}

\* register_webhook(config) by another task while trigger() awaits a response or
\* sleeps in backoff.
RegisterDuringTrigger ==
    /\ call.pc \in {"post", "sleep"}
    /\ service_trace.registrations < MaxRegistrations
    /\ \E id \in WebhookIds, setting \in ConcurrentSettings :
         webhooks' = register_webhook(webhooks,
                                      WebhookConfig(id, setting[2], setting[1], 1))
    /\ service_trace' = [service_trace EXCEPT !.registrations = @ + 1]
    /\ UNCHANGED <<deliveries, client, call, delivery_trace, tenant_webhooks,
                   agentVars, sig>>

\* unregister_webhook(webhook_id) by another task while trigger() awaits a response
\* or sleeps in backoff.
UnregisterDuringTrigger ==
    /\ call.pc \in {"post", "sleep"}
    /\ \E i \in 1..Len(webhooks) :
         /\ webhooks[i] # Deleted
         /\ webhooks' = unregister_in_place(webhooks, webhooks[i].id)
    /\ UNCHANGED <<deliveries, client, call, delivery_trace, service_trace,
                   tenant_webhooks, agentVars, sig>>

ConcurrentNext ==
    \/ RegisterWebhook
    \/ UnregisterWebhook
    \/ Trigger
    \/ PostReturns
    \/ SleepEnds
    \/ RegisterDuringTrigger
    \/ UnregisterDuringTrigger

SpecConcurrent == ServiceSpecInit /\ [][ConcurrentNext]_vars

(* --------------------------- WebhookManager ----------------------------- *)
\* WebhookConfig.retry_count when the caller gives none.
DefaultRetryCount == 3

\* The id add_webhook gives a config: f"wh_{tenant_id}_{timestamp}", ts the time of
\* the call.
webhook_id(tenant, ts) == "wh_" \o tenant \o "_" \o ToString(ts)

\* The "events or []" lists add_webhook is called with.
ManagerEvents == {{}, {"alert.created"}}

\* The outcomes of the POST attempts to manager-made webhooks.
ManagerOutcomes == {0, 200}

\* The service's registry and the manager's per-tenant lists, as one value.
Managed(reg, lists) == [webhooks |-> reg, tenant_webhooks |-> lists]

\* add_webhook: registers a new active config and appends its id to the tenant's
\* list (a tenant without a list has the empty one).
add_webhook(m, tenant, filter, ts) ==
    LET config == WebhookConfig(webhook_id(tenant, ts), filter, TRUE, DefaultRetryCount)
    IN  Managed(register_webhook(m.webhooks, config),
                [m.tenant_webhooks EXCEPT ![tenant] = Append(@, config.id)])

remove_webhook_anytenant(m, tenant, id) ==
    Managed(unregister_webhook(m.webhooks, id),
            [m.tenant_webhooks EXCEPT ![tenant] = SelectSeq(@, LAMBDA x : x # id)])

\* remove_webhook: when the id is in the tenant's list, removes it from the list and
\* unregisters it.
remove_webhook(m, tenant, id) ==
    IF \E i \in 1..Len(m.tenant_webhooks[tenant]) : m.tenant_webhooks[tenant][i] = id
    THEN Managed(unregister_webhook(m.webhooks, id),
                 [m.tenant_webhooks EXCEPT ![tenant] = SelectSeq(@, LAMBDA x : x # id)])
    ELSE m

\* WebhookManager.add_webhook(tenant_id, url, secret, events); successive calls
\* read successive timestamps.
AddWebhook ==
    /\ call.pc = "idle"
    /\ service_trace.registrations < MaxRegistrations
    /\ \E tenant \in Tenants, filter \in ManagerEvents :
         LET ts == service_trace.registrations + 1
             m == add_webhook(Managed(webhooks, tenant_webhooks), tenant, filter, ts)
         IN  /\ webhooks' = m.webhooks
             /\ tenant_webhooks' = m.tenant_webhooks
             /\ service_trace' = [service_trace EXCEPT
                                    !.registrations = @ + 1,
                                    !.op = <<"add_webhook", tenant,
                                             webhook_id(tenant, ts)>>]
    /\ UNCHANGED <<deliveries, client, call, delivery_trace, agentVars, sig>>

\* WebhookManager.remove_webhook(tenant_id, webhook_id), with an id some add_webhook
\* call returned or an id no call returned.
RemoveWebhook ==
    /\ call.pc = "idle"
    /\ \E tenant \in Tenants, owner \in Tenants, ts \in 1..service_trace.registrations :
         LET id == webhook_id(owner, ts)
             m == remove_webhook(Managed(webhooks, tenant_webhooks), tenant, id)
         IN  /\ webhooks' = m.webhooks
             /\ tenant_webhooks' = m.tenant_webhooks
             /\ service_trace' = [service_trace EXCEPT
                                    !.op = <<"remove_webhook", tenant, id>>]
    /\ UNCHANGED <<deliveries, client, call, delivery_trace, agentVars, sig>>

ManagerNext ==
    \/ AddWebhook
    \/ RemoveWebhook
    \/ Trigger
    \/ PostReturnsWith(ManagerOutcomes)
    \/ SleepEnds

SpecManager == ServiceSpecInit /\ [][ManagerNext]_vars

(* ------------------------------- claims -------------------------------- *)
\* Every action reason() returned for event e has been passed to act(), which returned.
Acted(e) == \A i \in 1..Len(produced[e]) : produced[e][i].result # "None"

\* Task t is about to take the oldest queued event and evaluate reason() on it.
Dequeuing(t) == pc[t] = "waiting" /\ event_queue # <<>>

\* The events other than e that memory returns in e's 24h window for e's (tenant, asset).
OthersInWindow(e) ==
    LET recent == get_recent_events(ev[e].tenant_id, ev[e].asset_id, "None", WindowHours)
    IN  {o \in 1..Len(ev) : o # e /\ \E k \in 1..Len(recent) : recent[k] = o}

\* Number of entries of action_history that are action i of event e.
HistoryCount(e, i) ==
    Cardinality({k \in 1..Len(action_history) : action_history[k] = <<e, i>>})

\* The action list of event e holds an escalate action.
HasEscalate(e) == \E i \in 1..Len(produced[e]) : produced[e][i].type = "escalate"

C2_SingleConsumer ==
    Cardinality({t \in Tasks : pc[t] \in {"waiting", "llm", "exec"}}) <= 1

\* C3: an observed event that the loop dequeued and finished handling is marked
\* processed = true, whatever the collaborators did (an event the loop is done with
\* is never touched again, so one left unprocessed stays so for ever).
C3_HandledIsProcessed ==
    \A e \in 1..Len(ev) : trace[e].status = "handled" => ev[e].processed

\* C4: once stop() has been called and start() has not been called since, the state
\* is Stopped (is_running false), so that every loop leaves at its next loop test.
C4_StoppedStaysStopped == stopPending => ~is_running

\* C5: for every Action, result is set if and only if executed is true.
C5_ResultIffExecuted ==
    \A e \in 1..Len(ev) : \A i \in 1..Len(produced[e]) :
      (produced[e][i].result # "None") <=> produced[e][i].executed

\* C6: every Action that act() returned for has executed = true and is in
\* action_history exactly once, whether its executor returned or raised.
C6_ActedOnceInHistory ==
    \A e \in 1..Len(ev) : \A i \in 1..Len(produced[e]) :
      produced[e][i].result # "None" =>
        produced[e][i].executed /\ HistoryCount(e, i) = 1

\* C7: when the executor of an action raised (the action carries the error result),
\* the event's processing went on: either a run() task is in act() on a later action
\* of the same event with every action before it acted, or every action of the event
\* has been acted and the event is marked processed.
C7_ErrorDoesNotBlock ==
    \A e \in 1..Len(ev) : \A i \in 1..Len(produced[e]) :
      produced[e][i].result = "error" =>
        \/ /\ trace[e].status = "inflight"
           /\ \E t \in Tasks :
                /\ pc[t] = "exec"
                /\ cur[t] = e
                /\ idx[t] > i
                /\ \A j \in 1..(idx[t] - 1) : produced[e][j].result # "None"
        \/ /\ trace[e].status = "handled"
           /\ Acted(e)
           /\ ev[e].processed

\* C7 witness: an action whose executor raised is followed by a later action of the
\* same event that was executed, and the event is marked processed.
C7_Witness ==
    \E e \in 1..Len(ev) : \E i, j \in 1..Len(produced[e]) :
      /\ i < j
      /\ produced[e][i].result = "error"
      /\ produced[e][j].executed
      /\ ev[e].processed

\* C8: no reason() call raises.
C8_ReasonNeverRaises ==
    \A e \in 1..Len(ev) : trace[e].reason # "raised"

\* C9 (as stated): the list reason() returns for a new event holds an escalate action
\* when 4 prior critical events of its (tenant, asset) are in the window, and holds
\* none when only 2 are.
C9_EscalateAtFourNeverAtTwo ==
    \A e \in 1..Len(ev) :
      trace[e].reason = "ok" =>
        /\ trace[e].prior = 4 => HasEscalate(e)
        /\ trace[e].prior = 2 => ~HasEscalate(e)

\* C9 (amended): the list reason() returns for a new event holds an escalate action
\* when 4 prior critical events of its (tenant, asset) are in the window; when only
\* 2 are, it holds one exactly if the new event is itself critical and already in
\* memory (as after observe()), where it counts as the third.
C9_EscalateCountsStoredEvent ==
    \A e \in 1..Len(ev) :
      trace[e].reason = "ok" =>
        /\ trace[e].prior = 4 => HasEscalate(e)
        /\ trace[e].prior = 2 => (HasEscalate(e) <=> trace[e].self)

\* C9 witness: the run loop reasoned on an observed critical event with 2 prior
\* critical events in its window, and the list holds an escalate action.
C9_Witness ==
    \E e \in 1..Len(ev) :
      /\ trace[e].reason = "ok"
      /\ trace[e].status \in {"inflight", "handled"}
      /\ trace[e].prior = 2
      /\ trace[e].self
      /\ HasEscalate(e)

\* C10: after N add_event calls with capacity K = max_events, the buffer holds
\* min(N, K) events, exactly the last min(N, K) inserted, oldest first, and never
\* more than K.
C10_BoundedMemory ==
    LET n == Len(ev)
        k == Min(n, max_events)
    IN  /\ Len(events) = k
        /\ events = [j \in 1..k |-> n - k + j]
        /\ Len(events) <= max_events

\* Look-back windows (hours) a reader asks for.
QueryHours == {0, 12, 24, 48}

\* C11: get_recent_events(tenant_id = A, ...) returns only events of tenant A, for
\* every asset filter, type filter and look-back window.
C11_TenantIsolation ==
    \A tenant \in Tenants, asset \in Assets \cup {"None"},
       type \in {"None", "anomaly_detected", "drift_detected"}, hours \in QueryHours :
      LET r == get_recent_events(tenant, asset, type, hours)
      IN  \A k \in 1..Len(r) : ev[r[k]].tenant_id = tenant

\* C11 witness: memory holds recent events of two tenants for the same asset id and
\* the query of one tenant returns some event.
C11_Witness ==
    \E i, j \in 1..Len(ev) :
      /\ InMemory(i) /\ InMemory(j)
      /\ ev[i].tenant_id = "tA" /\ ev[j].tenant_id = "tB"
      /\ ev[i].asset_id = ev[j].asset_id
      /\ ev[j].timestamp >= now - WindowHours
      /\ Len(get_recent_events("tA", ev[i].asset_id, "None", WindowHours)) > 0

\* C12: the activity accessor and get_suggestions, called for a user of tenant A,
\* return only events and actions of tenant A.
C12_ReadsStayInTenant ==
    \A tenant \in Tenants, asset \in Assets :
      /\ LET r == get_agent_activity_events(asset)
         IN  \A k \in 1..Len(r) : ev[r[k]].tenant_id = tenant
      /\ LET r == get_agent_activity_actions(asset)
         IN  \A k \in 1..Len(r) : produced[r[k][1]][r[k][2]].tenant_id = tenant
      /\ LET r == get_suggestions(tenant, asset)
         IN  \A k \in 1..Len(r) : produced[r[k][1]][r[k][2]].tenant_id = tenant

\* The types of the actions of a list, in order.
TypesOf(acts) == [i \in 1..Len(acts) |-> acts[i].type]

\* The list without its trailing escalate action, if it has one.
WithoutEscalate(acts) ==
    IF Len(acts) > 0 /\ acts[Len(acts)].type = "escalate"
    THEN SubSeq(acts, 1, Len(acts) - 1)
    ELSE acts

\* C19: the list reason() returns for an AnomalyDetected event starts with
\* create_incident, send_notification exactly if score >= anomaly_threshold or the
\* risk level is warning or critical; create_ticket follows them exactly if their
\* priority is high or critical; when the gate fails the list holds none of the three.
C19_AnomalyGating ==
    \A e \in 1..Len(ev) :
      (ev[e].type = "anomaly_detected" /\ trace[e].reason = "ok") =>
        LET acts == WithoutEscalate(produced[e])
            gate == \/ ev[e].anomaly_score >= AnomalyThreshold
                    \/ ev[e].risk_level \in {"warning", "critical"}
        IN  IF gate
            THEN /\ Len(acts) >= 2
                 /\ acts[1].type = "create_incident"
                 /\ acts[2].type = "send_notification"
                 /\ IF acts[1].priority \in {"high", "critical"}
                    THEN TypesOf(acts) =
                           <<"create_incident", "send_notification", "create_ticket">>
                    ELSE TypesOf(acts) = <<"create_incident", "send_notification">>
            ELSE acts = <<>>

\* C19 witness: reason() returned the three actions for an anomaly event whose score
\* equals the threshold and whose risk level is normal.
C19_Witness ==
    \E e \in 1..Len(ev) :
      /\ ev[e].type = "anomaly_detected"
      /\ trace[e].reason = "ok"
      /\ ev[e].anomaly_score = AnomalyThreshold
      /\ ev[e].risk_level = "normal"
      /\ TypesOf(produced[e]) = <<"create_incident", "send_notification", "create_ticket">>

\* C20: the list reason() returns for a RulCritical event is, apart from a trailing
\* escalate, create_incident, schedule_maintenance, create_ticket in that order, all
\* at critical priority, with deadline_hours = min(0.8 * rul_hours, 24) <= 24.
C20_RulCriticalPath ==
    \A e \in 1..Len(ev) :
      (ev[e].type = "rul_critical" /\ trace[e].reason = "ok") =>
        LET acts == WithoutEscalate(produced[e])
        IN  /\ TypesOf(acts) =
                 <<"create_incident", "schedule_maintenance", "create_ticket">>
            /\ \A i \in 1..Len(acts) : acts[i].priority = "critical"
            /\ acts[2].deadline_tenths =
                 (IF 8 * ev[e].rul_hours <= 240 THEN 8 * ev[e].rul_hours ELSE 240)
            /\ acts[2].deadline_tenths <= 240

\* C20 witness: reason() returned for a RulCritical event of severity info with
\* fewer than 3 critical events in memory and rul_hours above 30.
C20_Witness ==
    \E e \in 1..Len(ev) :
      /\ ev[e].type = "rul_critical"
      /\ trace[e].reason = "ok"
      /\ ev[e].severity # "critical"
      /\ trace[e].prior < 3
      /\ Len(produced[e]) = 3

(* ------------------------- payload signatures --------------------------- *)

\* Longest secret, in characters.
MaxSecretLen == 2

\* Block size of SHA-256 in bytes: HMAC pads a shorter key with zero bytes up to it.
HmacBlockSize == 64

\* Keys a payload map may hold, in sorted order.
SortedKeys == <<"data", "event">>

\* Values a payload key may hold.
PayloadValues == {0, 1}

\* Characters of a secret, as code points: NUL and U+00E9.
SecretChars == {0, 233}

\* Payload maps: key/value pairs in insertion order, no key twice.
Payloads ==
    LET Pair == {<<SortedKeys[i], v>> : i \in 1..Len(SortedKeys), v \in PayloadValues}
    IN  {<<>>} \cup {<<p>> : p \in Pair}
               \cup {pq \in Pair \X Pair : pq[1][1] # pq[2][1]}

\* Secrets of up to MaxSecretLen characters.
Secrets == UNION {[1..n -> SecretChars] : n \in 0..MaxSecretLen}

\* str.encode(): UTF-8, one byte below U+0080 and two bytes below U+0800.
RECURSIVE encode(_)
encode(str) ==
    IF str = <<>> THEN <<>>
    ELSE LET c == Head(str)
         IN  (IF c < 128 THEN <<c>> ELSE <<192 + (c \div 64), 128 + (c % 64)>>)
               \o encode(Tail(str))

\* json.dumps(payload, sort_keys=True).encode(): the pairs in key order.
canonical_json(P) ==
    LET has(k) == \E i \in 1..Len(P) : P[i][1] = k
        at(k) == P[CHOOSE i \in 1..Len(P) : P[i][1] = k]
        slot == [j \in 1..Len(SortedKeys) |->
                   IF has(SortedKeys[j]) THEN at(SortedKeys[j]) ELSE <<SortedKeys[j], 2>>]
    IN  SelectSeq(slot, LAMBDA pr : pr[2] \in PayloadValues)

\* The key block HMAC derives from a key no longer than the block: zero padded.
PadKey(key) == key \o [i \in 1..(HmacBlockSize - Len(key)) |-> 0]

\* hmac.new(key, msg, sha256).hexdigest(), SHA-256 taken as collision free: the
\* digest is determined by exactly the padded key block and the message.
hmac_hexdigest(key, msg) == [block |-> PadKey(key), msg |-> msg]

\* WebhookService._sign_payload
sign_payload(P, secret) == hmac_hexdigest(encode(secret), canonical_json(P))

\* A signature header: its prefix, the digest its hex characters spell, and what
\* became of the last hex character (kept, another hex digit, a non-ASCII character).
Header(prefix, digest, last) == [prefix |-> prefix, digest |-> digest, last |-> last]

\* The headers a receiver may be handed for a signed digest.
HeadersOf(digest) ==
    {Header(p, digest, l) : p \in {"sha256=", "sha1="}, l \in {"kept", "hex", "nonascii"}}

\* hmac.compare_digest on two str arguments: TypeError unless both are ASCII.
compare_digest(a, b) ==
    IF a.last = "nonascii" \/ b.last = "nonascii"
    THEN [raised |-> TRUE, value |-> FALSE]
    ELSE [raised |-> FALSE, value |-> (a = b)]

\* WebhookService.verify_signature
verify_signature(payload, signature, secret) ==
    LET expected == hmac_hexdigest(encode(secret), payload)
    IN  compare_digest(Header("sha256=", expected, "kept"), signature)

\* A sender signs payload map P with secret S and builds the X-Signature-256 header.
SignPayload ==
    /\ sig.stage = "idle"
    /\ \E P \in Payloads, S \in Secrets :
         sig' = [stage |-> "signed", P |-> P, S |-> S,
                 payload |-> canonical_json(P),
                 header |-> Header("sha256=", sign_payload(P, S), "kept")]
    /\ UNCHANGED <<agentVars, serviceVars>>

\* A receiver verifies payload bytes, header and secret, each the signed one or not.
VerifySignature ==
    /\ sig.stage = "signed"
    /\ \E P \in Payloads, h \in HeadersOf(sig.header.digest), S \in Secrets :
         sig' = [stage |-> "verified", P |-> sig.P, S |-> sig.S,
                 payload |-> sig.payload, header |-> sig.header,
                 got_payload |-> canonical_json(P), got_header |-> h, got_secret |-> S,
                 result |-> verify_signature(canonical_json(P), h, S)]
    /\ UNCHANGED <<agentVars, serviceVars>>

SigInit == AgentInit({DefaultMaxEvents}, {TRUE}) /\ ServiceInit({TRUE}) /\ SigIdle

SigNext == SignPayload \/ VerifySignature

SpecSig == SigInit /\ [][SigNext]_vars

\* Every element of the sequence is x.
AllAre(seq, x) == \A k \in 1..Len(seq) : seq[k] = x

\* C13: a delivery whose target answered 503 to every attempt made retry_count POST
\* attempts and is failed; one whose first response was a non-2xx status below 500
\* made one attempt and is failed.
C13_RetryBound ==
    \A n \in 1..Len(deliveries) :
      LET tr == delivery_trace[n]
          first == tr.responses[1]
      IN  tr.looped =>
            /\ AllAre(tr.responses, 503) =>
                 /\ Len(tr.responses) = tr.retry_count
                 /\ deliveries[n].status = "failed"
            /\ (Len(tr.responses) > 0 /\ first > 0 /\ first < 500
                  /\ ~(first >= 200 /\ first < 300)) =>
                 /\ Len(tr.responses) = 1
                 /\ deliveries[n].status = "failed"

\* C13 witness: a recorded delivery with retry_count of at least 2 whose attempts
\* were all answered 503.
C13_Witness ==
    \E n \in 1..Len(deliveries) :
      /\ delivery_trace[n].retry_count >= 2
      /\ Len(delivery_trace[n].responses) = delivery_trace[n].retry_count
      /\ AllAre(delivery_trace[n].responses, 503)

\* C14: a recorded delivery that went through the attempt loop has status success or
\* failed, and attempts <= retry_count.
C14_TerminalStatus ==
    \A n \in 1..Len(deliveries) :
      delivery_trace[n].looped =>
        /\ deliveries[n].status \in {"success", "failed"}
        /\ deliveries[n].attempts <= delivery_trace[n].retry_count

\* C14 witness: a recorded delivery whose first attempt raised and whose second was
\* answered 503.
C14_Witness ==
    \E n \in 1..Len(deliveries) :
      /\ delivery_trace[n].looped
      /\ delivery_trace[n].responses = <<0, 503>>

\* C15: no exception leaves _deliver; every _deliver call that has ended appended
\* one record, the one in flight has appended none, and trigger() returns one result
\* per _deliver call, each naming its own record.
C15_DeliverNeverRaises ==
    /\ call.pc # "raised"
    /\ Len(deliveries) =
         service_trace.delivers - (IF call.pc \in {"post", "sleep"} THEN 1 ELSE 0)
    /\ call.pc = "returned" =>
         /\ Len(call.results) = service_trace.delivers
         /\ \A k \in 1..Len(call.results) : call.results[k].delivery = k

\* C15 witness: trigger() returned after a delivery all of whose attempts, at least
\* two, raised.
C15_Witness ==
    /\ call.pc = "returned"
    /\ \E n \in 1..Len(deliveries) :
         /\ Len(delivery_trace[n].responses) >= 2
         /\ AllAre(delivery_trace[n].responses, 0)

\* C16: trigger() returns one result per registered webhook that is active and whose
\* event list is empty or holds the event, in registration order; no other webhook is
\* posted to or gets a record.
C16_OneResultPerMatching ==
    /\ call.pc # "idle" =>
         \A p \in call.posted :
           /\ webhooks[p].active
           /\ (webhooks[p].events = {} \/ call.event \in webhooks[p].events)
    /\ call.pc = "returned" =>
         LET matching == SelectSeq(webhooks,
                                   LAMBDA w : /\ w.active
                                              /\ (w.events = {} \/ call.event \in w.events))
         IN  /\ Len(call.results) = Len(matching)
             /\ Len(deliveries) = Len(matching)
             /\ \A k \in 1..Len(matching) :
                  deliveries[call.results[k].delivery].webhook_id = matching[k].id

\* C16 witness: trigger() returned one result with two webhooks registered, the
\* first of them inactive or filtered out.
C16_Witness ==
    /\ call.pc = "returned"
    /\ Len(webhooks) = 2
    /\ Len(call.results) = 1
    /\ deliveries[call.results[1].delivery].webhook_id = webhooks[2].id

\* C17: while the delivery to one webhook sleeps between attempts, every later
\* webhook that the same trigger() call delivers to has had its first attempt.
C17_SleepDoesNotDelay ==
    call.pc = "sleep" =>
      \A j \in (call.pos + 1)..Len(webhooks) :
        (Matches(webhooks[j], call.event) /\ webhooks[j].retry_count > 0) =>
          j \in call.posted

\* C18: verifying the signed payload bytes, header and secret returns true, and
\* verifying returns false when the payload bytes, the header or the secret differ
\* from the ones used to sign.
C18_SignatureRoundTrip ==
    sig.stage = "verified" =>
      LET same == /\ sig.got_payload = sig.payload
                  /\ sig.got_header = sig.header
                  /\ sig.got_secret = sig.S
      IN  sig.result = [raised |-> FALSE, value |-> same]

\* The severity-based priority: critical for critical, high for warning, medium
\* for every other severity.
BasePriority(sev) ==
    CASE sev = "critical" -> "critical"
      [] sev = "warning" -> "high"
      [] OTHER -> "medium"

\* C21: the priority reason() gives the actions it builds for an anomaly, drift or
\* maintenance event is critical when at least 3 critical events of the event's
\* (tenant, asset) are in the 24h window, whatever the event's own severity, and
\* otherwise critical, high or medium by that severity; it is never low.
C21_PriorityRule ==
    \A e \in 1..Len(ev) :
      (/\ trace[e].reason = "ok"
       /\ ev[e].type \in {"anomaly_detected", "drift_detected", "maintenance_due"}) =>
        LET acts == WithoutEscalate(produced[e])
            criticals == trace[e].prior + (IF trace[e].self THEN 1 ELSE 0)
        IN  \A i \in 1..Len(acts) :
              /\ acts[i].priority =
                   (IF criticals >= 3 THEN "critical" ELSE BasePriority(ev[e].severity))
              /\ acts[i].priority # "low"

\* C21 witness: reason() built a critical action for an event of severity info with
\* 3 critical events in its window.
C21_Witness ==
    \E e \in 1..Len(ev) :
      /\ trace[e].reason = "ok"
      /\ ev[e].severity = "info"
      /\ trace[e].prior = 3
      /\ Len(produced[e]) > 1
      /\ produced[e][1].priority = "critical"
      /\ produced[e][1].type # "escalate"

\* C25: the list reason() returns for a DriftDetected event holds exactly one
\* suggest_action, which recommends retrain_model and carries the event's drift score
\* and drifted feature names, and no create_incident, create_ticket,
\* send_notification or schedule_maintenance action.
C25_DriftOnlySuggests ==
    \A e \in 1..Len(ev) :
      (ev[e].type = "drift_detected" /\ trace[e].reason = "ok") =>
        LET acts == produced[e]
            suggestions == SelectSeq(acts, LAMBDA a : a.type = "suggest_action")
        IN  /\ Len(suggestions) = 1
            /\ suggestions[1].action = "retrain_model"
            /\ suggestions[1].drift_score = ev[e].drift_score
            /\ suggestions[1].affected_features = ev[e].drifted_features
            /\ \A i \in 1..Len(acts) :
                 acts[i].type \notin {"create_incident", "create_ticket",
                                      "send_notification", "schedule_maintenance"}

\* C25 witness: reason() returned for a drift event of severity critical with a
\* drift score of 0.6, two drifted features and 3 critical events in its window.
C25_Witness ==
    \E e \in 1..Len(ev) :
      /\ ev[e].type = "drift_detected"
      /\ trace[e].reason = "ok"
      /\ ev[e].severity = "critical"
      /\ ev[e].drift_score = 60
      /\ Len(ev[e].drifted_features) = 2
      /\ trace[e].prior >= 3
      /\ Len(produced[e]) = 2

\* C27: a reason(event) call changes no agent state: the events and their processed
\* flags, the event buffer, the incident map, action_history and the event queue
\* are the same after the call as before it, with or without an LLM collaborator
\* and whether the call returns or raises.
C27_ReasonHasNoEffect ==
    [][(\E e \in 1..Len(ev) :
          /\ trace[e].status = "direct"
          /\ trace[e].reason = "none"
          /\ trace'[e].reason # "none")
       => /\ ev' = ev
          /\ events' = events
          /\ incidents' = incidents
          /\ action_history' = action_history
          /\ event_queue' = event_queue]_vars

\* C27 witness: reason() returned, having awaited the LLM collaborator, while memory
\* held an event, an incident and executed actions and an event waited in the queue.
C27_Witness ==
    /\ llm
    /\ \E e \in 1..Len(ev) :
         /\ trace[e].status = "direct"
         /\ trace[e].reason = "ok"
         /\ CallsLLM(ev[e])
         /\ ~ev[e].processed
    /\ Len(events) > 0
    /\ DOMAIN incidents # {}
    /\ Len(action_history) > 0
    /\ Len(event_queue) > 0

\* The create_incident actions whose executor returned.
CreatedIncidents ==
    {h \in UNION {{<<e, i>> : i \in 1..Len(produced[e])} : e \in 1..Len(ev)} :
       /\ produced[h[1]][h[2]].type = "create_incident"
       /\ produced[h[1]][h[2]].executed}

\* C26: the incident map only grows, each successful create_incident execution
\* adding an incident under a new id, also within one clock reading: the number of
\* stored incidents equals the number of successful create_incident executions.
C26_IncidentPerExecution ==
    Cardinality(DOMAIN incidents) = Cardinality(CreatedIncidents)

\* C28: the entries of action_history are in the order of their act() calls: the
\* actions of an event in the order of reason()'s list, and every action of an
\* earlier-dequeued event before those of a later-dequeued one (observed events are
\* dequeued in the order of their creation).
C28_HistoryInCausalOrder ==
    \A k, l \in 1..Len(action_history) :
      k < l =>
        \/ action_history[k][1] < action_history[l][1]
        \/ /\ action_history[k][1] = action_history[l][1]
           /\ action_history[k][2] < action_history[l][2]

\* C29: every escalate action reason() emits has critical priority and carries as
\* event_count the number of critical events in the 24h window of the event's
\* (tenant, asset).
C29_EscalateCarriesCriticalCount ==
    \A e \in 1..Len(ev) : \A i \in 1..Len(produced[e]) :
      produced[e][i].type = "escalate" =>
        /\ produced[e][i].priority = "critical"
        /\ produced[e][i].event_count =
             trace[e].prior + (IF trace[e].self THEN 1 ELSE 0)

\* Position of event id in the buffer.
BufferIndex(id) == CHOOSE p \in 1..Len(events) : events[p] = id

\* C30: get_recent_events(tenant_id, asset_id?, kind?, hours) returns exactly the
\* buffered events with timestamp >= now - hours of that tenant, of that asset when
\* one is given and of that kind when one is given, each once, in insertion order.
C30_RecentEventsExact ==
    \A tenant \in Tenants, asset \in QueryAssets \cup {"None"},
       type \in QueryTypes \cup {"None"}, hours \in QueryHours :
      LET r == get_recent_events(tenant, asset, type, hours)
          wanted == {i \in 1..Len(ev) :
                       /\ InMemory(i)
                       /\ now - ev[i].timestamp <= hours
                       /\ ev[i].tenant_id = tenant
                       /\ asset # "None" => ev[i].asset_id = asset
                       /\ type # "None" => ev[i].type = type}
      IN  /\ {r[k] : k \in 1..Len(r)} = wanted
          /\ \A k, l \in 1..Len(r) : k < l => BufferIndex(r[k]) < BufferIndex(r[l])

\* C30 witness: a query with asset and kind given returns two events, the first
\* inserted with the later timestamp, and leaves out buffered events of another
\* tenant, another asset, another kind and an older timestamp.
C30_Witness ==
    LET r == get_recent_events("tA", "a1", "anomaly_detected", 48)
        out == get_recent_events("tA", "a1", "anomaly_detected", 24)
    IN  /\ Len(r) = 2
        /\ ev[r[1]].timestamp > ev[r[2]].timestamp
        /\ Len(out) = 1
        /\ \E i, j \in 1..Len(ev) :
             /\ InMemory(i) /\ InMemory(j)
             /\ ev[i].tenant_id = "tB"
             /\ ev[j].tenant_id = "tA" /\ ev[j].type = "drift_detected"

\* The step is a call of this name on the monitor or the copilot.
Called(name) ==
    /\ Len(inbound') = Len(inbound) + 1
    /\ inbound'[Len(inbound')].call = name

\* The step stores one new event in memory and queues it, and changes no other event.
ForwardsOne ==
    /\ Len(ev') = Len(ev) + 1
    /\ SubSeq(ev', 1, Len(ev)) = ev
    /\ events' = Append(events, Len(ev'))
    /\ event_queue' = Append(event_queue, Len(ev'))

\* C22: observe_rul(rul_hours) creates exactly one event, of severity critical if
\* rul_hours < 10, warning if 10 <= rul_hours < 50 and info otherwise, and of type
\* rul_critical if rul_hours < rul_critical_hours (24) and maintenance_due otherwise.
C22_RulClassification ==
    [][Called("observe_rul") =>
         LET r == inbound'[Len(inbound')].input.rul
             e == ev'[Len(ev')]
         IN  /\ ForwardsOne
             /\ e.rul_hours = r
             /\ e.severity = (CASE r < 10 -> "critical"
                                [] r >= 10 /\ r < 50 -> "warning"
                                [] OTHER -> "info")
             /\ e.type = (IF r < 24 THEN "rul_critical" ELSE "maintenance_due")]_vars

\* C22 witness: observe_rul was called with 10 <= rul_hours < 24 and memory holds a
\* rul_critical event of severity warning.
C22_Witness ==
    /\ \E k \in 1..Len(inbound) :
         /\ inbound[k].call = "observe_rul"
         /\ inbound[k].input.rul >= 10
         /\ inbound[k].input.rul < 24
    /\ \E i \in 1..Len(ev) :
         /\ InMemory(i)
         /\ ev[i].type = "rul_critical"
         /\ ev[i].severity = "warning"

\* C23: on_prediction forwards exactly one event to the copilot if the kind is
\* anomaly and score >= anomaly_threshold or the risk level is warning or critical,
\* or the kind is rul and rul_estimate <= rul_warning_hours; in every other case it
\* leaves the copilot's events, memory and queue unchanged.
C23_PredictionForwarding ==
    [][Called("on_prediction") =>
         LET in == inbound'[Len(inbound')].input
             gate == \/ /\ in.kind = "anomaly"
                        /\ (in.score >= 70 \/ in.risk \in {"warning", "critical"})
                     \/ /\ in.kind = "rul"
                        /\ in.rul <= 48
         IN  IF gate
             THEN /\ ForwardsOne
                  /\ ev'[Len(ev')].type =
                       (IF in.kind = "anomaly" THEN "anomaly_detected"
                        ELSE IF in.rul < 24 THEN "rul_critical" ELSE "maintenance_due")
             ELSE UNCHANGED <<ev, events, event_queue>>]_vars

\* C23 witness: on_prediction was called with a RUL estimate equal to
\* rul_warning_hours and the event is queued, and was called with a result of an
\* unknown kind.
C23_Witness ==
    /\ \E k \in 1..Len(inbound) :
         /\ inbound[k].call = "on_prediction"
         /\ inbound[k].input.kind = "rul"
         /\ inbound[k].input.rul = 48
    /\ \E k \in 1..Len(inbound) :
         /\ inbound[k].call = "on_prediction"
         /\ inbound[k].input.kind = "log"
    /\ Len(event_queue) = 1
    /\ ev[event_queue[1]].rul_hours = 48

\* C24: every on_drift_detected call returns, having forwarded one event if
\* overall_drift_score >= drift_threshold or at least 2 drifted features are
\* reported, for every drifted_features list, and nothing otherwise.
C24_DriftForwarding ==
    \A k \in 1..Len(inbound) :
      inbound[k].call = "on_drift_detected" =>
        inbound[k].outcome =
          (IF inbound[k].input.score >= 50 \/ Len(inbound[k].input.names) >= 2
           THEN "forwarded" ELSE "skipped")

\* C40: whenever the list reason() returns holds an escalate action, every action
\* of the list has critical priority, and a list holding create_incident then also
\* holds create_ticket.
C40_EscalateImpliesAllCritical ==
    \A e \in 1..Len(ev) :
      (trace[e].reason = "ok" /\ HasEscalate(e)) =>
        LET acts == produced[e]
        IN  /\ \A i \in 1..Len(acts) : acts[i].priority = "critical"
            /\ (\E i \in 1..Len(acts) : acts[i].type = "create_incident") =>
                 (\E i \in 1..Len(acts) : acts[i].type = "create_ticket")

\* C40 witness: reason() returned create_incident, send_notification, create_ticket
\* and escalate for an anomaly event of severity info.
C40_Witness ==
    \E e \in 1..Len(ev) :
      /\ trace[e].reason = "ok"
      /\ ev[e].type = "anomaly_detected"
      /\ ev[e].severity = "info"
      /\ TypesOf(produced[e]) =
           <<"create_incident", "send_notification", "create_ticket", "escalate">>

\* C34: a delivery that went through the attempt loop ends with status success
\* exactly when one of its attempts returned a 2xx status; that attempt is the last
\* one made, attempts is its 1-based index within retry_count, and delivered_at
\* is set.
C34_SuccessIffSome2xx ==
    \A i \in 1..Len(deliveries) :
      delivery_trace[i].looped =>
        LET d == deliveries[i]
            responses == delivery_trace[i].responses
            ok == {k \in 1..Len(responses) : is_success(responses[k])}
        IN  /\ d.status = "success" <=> ok # {}
            /\ d.delivered_at <=> ok # {}
            /\ \A k \in ok : /\ k = Len(responses)
                             /\ k = d.attempts
                             /\ k <= delivery_trace[i].retry_count

\* C34 witness: a delivery whose first attempt raised a transport exception and
\* whose second attempt returned 200 is recorded with status success.
C34_Witness ==
    \E i \in 1..Len(deliveries) :
      /\ delivery_trace[i].responses = <<0, 200>>
      /\ deliveries[i].status = "success"
      /\ deliveries[i].attempts = 2

\* C35: a backoff sleep after the n-th attempt lasts n times retry_delay, and whether
\* the attempt in flight is followed by a sleep is the same for a status >= 500 and
\* for a transport exception.
C35_BackoffSameForBothKinds ==
    /\ call.pc = "sleep" => call.delay = Len(call.responses)
    /\ call.pc = "post" =>
         LET retry == call.webhook.retry_count
         IN  after_post(call.delivery, call.attempt, retry, 503).next = "sleep"
               <=> after_post(call.delivery, call.attempt, retry, 0).next = "sleep"

\* The ids of the webhooks the results of the trigger() call are about.
ResultIds ==
    [k \in 1..Len(call.results) |-> deliveries[call.results[k].delivery].webhook_id]

\* The ids of the configs of reg that match the event, in order.
MatchingIds(reg, event) ==
    LET m == SelectSeq(reg, LAMBDA w : Matches(w, event))
    IN  [k \in 1..Len(m) |-> m[k].id]

\* C37: with other tasks registering and unregistering webhooks while trigger() is
\* suspended, the call does not raise, and when it has returned its results are one
\* per webhook that was registered, active and matching when it was called.
C37_TriggerSurvivesRegistryChanges ==
    /\ call.pc # "raised"
    /\ call.pc = "returned" => ResultIds = MatchingIds(call.registered, call.event)

\* The tenant add_webhook made the id for.
OwnedBy(id, tenant) == \E ts \in 1..MaxRegistrations : id = webhook_id(tenant, ts)

\* C38: a webhook added for a tenant is posted to, and gets a delivery record, only
\* in trigger() calls made with that tenant's id.
C38_TenantIsolation ==
    /\ \A i \in 1..Len(deliveries), t \in Tenants :
         OwnedBy(deliveries[i].webhook_id, t) => deliveries[i].tenant_id = t
    /\ call.pc \in {"post", "sleep"} =>
         \A t \in Tenants : OwnedBy(call.webhook.id, t) => call.tenant_id = t

\* The ids registered in the service.
RegisteredIds == {webhooks[k].id : k \in 1..Len(webhooks)}

\* The ids in the list of a tenant.
ListedIds(lists, tenant) == {lists[tenant][i] : i \in 1..Len(lists[tenant])}

ActedOn(e) == produced'[e][Len(produced'[e])]

\* act() was called by a caller on an action about event e in this step.
CallerActed(e) ==
    /\ e \in 1..Len(produced)
    /\ Len(produced') = Len(produced)
    /\ Len(produced'[e]) = Len(produced[e]) + 1

\* The one call the claim gives the executor of the action.
ClaimedCalls(a) ==
    CASE a.type = "create_ticket" ->
           <<CollaboratorCall("create_ticket", <<>>, a.priority, <<>>)>>
      [] a.type = "send_notification" ->
           <<CollaboratorCall("send", details_get_channels(a, <<"email">>),
                              a.priority, <<>>)>>
      [] a.type = "escalate" ->
           <<CollaboratorCall("send", <<"email", "sms">>, "critical",
                              <<"management">>)>>
      [] OTHER -> <<>>

ForwardedUpTo(k) == Cardinality({j \in 1..k : inbound[j].outcome = "forwarded"})

\* The ingestion-side gate, by the monitor's threshold.
IngestionGate(in) ==
    in.score >= thresholds.monitor \/ in.risk \in {"warning", "critical"}

\* The reasoning-side gate, by the copilot's threshold.
ReasoningGate(in) ==
    in.score >= thresholds.copilot \/ in.risk \in {"warning", "critical"}

\* C31: for every pair of thresholds, an anomaly prediction given to on_prediction
\* is forwarded to the copilot exactly when it passes the monitor's gate, and the
\* action list reason() returns for its event holds a create_incident exactly when
\* it also passes the copilot's gate; a prediction that is not forwarded creates no
\* event.
C31_BothGates ==
    /\ Len(ev) = ForwardedUpTo(Len(inbound))
    /\ \A k \in 1..Len(inbound) :
         LET in == inbound[k].input
             e == ForwardedUpTo(k)
         IN  /\ inbound[k].outcome = "forwarded" <=> IngestionGate(in)
             /\ inbound[k].outcome = "forwarded" =>
                  /\ ev[e].anomaly_score = in.score
                  /\ ev[e].risk_level = in.risk
                  /\ trace[e].reason = "none" => produced[e] = <<>>
                  /\ trace[e].reason = "ok" =>
                       ((\E i \in 1..Len(produced[e]) :
                           produced[e][i].type = "create_incident")
                          <=> (IngestionGate(in) /\ ReasoningGate(in)))

\* C31 witness: with the monitor's threshold below the copilot's, a prediction with
\* a score between the two was forwarded and reason() returned no action for it,
\* and a prediction with a score above both led to a create_incident.
C31_Witness ==
    /\ thresholds.monitor < thresholds.copilot
    /\ \E k, m \in 1..Len(inbound) :
         /\ inbound[k].outcome = "forwarded"
         /\ inbound[k].input.score >= thresholds.monitor
         /\ inbound[k].input.score < thresholds.copilot
         /\ trace[ForwardedUpTo(k)].reason = "ok"
         /\ produced[ForwardedUpTo(k)] = <<>>
         /\ inbound[m].outcome = "forwarded"
         /\ inbound[m].input.score >= thresholds.copilot
         /\ trace[ForwardedUpTo(m)].reason = "ok"
         /\ produced[ForwardedUpTo(m)][1].type = "create_incident"

\* The elements of the sequence are distinct and in increasing order: the events
\* (named by their order of creation) are in the order they were observed.
InObservedOrder(seq) == \A i, j \in 1..Len(seq) : i < j => seq[i] < seq[j]

\* The set of the elements of a sequence.
Range(seq) == {seq[i] : i \in 1..Len(seq)}

\* The events a run() task took from the queue.
Dequeued == {e \in 1..Len(ev) : trace[e].status \in {"inflight", "handled"}}

\* C32: every observed event is in the queue exactly once until it is dequeued and
\* in the buffer at most once, both in the order observed, so that the buffered
\* events still queued are in the same order in memory and in the queue; with one
\* run loop the events dequeued are the first ones observed, at most one is in
\* flight, the latest dequeued, and an event is marked processed only after it was
\* dequeued and handled.
C32_ObserveAtomicFifo ==
    /\ InObservedOrder(event_queue)
    /\ InObservedOrder(events)
    /\ Range(event_queue) = (1..Len(ev)) \ Dequeued
    /\ Range(events) = {e \in 1..Len(ev) : e > Len(ev) - max_events}
    /\ SelectSeq(events, LAMBDA e : e \in Range(event_queue))
         = SelectSeq(event_queue, LAMBDA e : e \in Range(events))
    /\ Dequeued = 1..Cardinality(Dequeued)
    /\ \A e \in Dequeued :
         trace[e].status = "inflight" => e = Cardinality(Dequeued)
    /\ \A e \in 1..Len(ev) : ev[e].processed => trace[e].status = "handled"

\* C32 witness: three events were observed with a buffer of two; the first was
\* dequeued and marked processed, the second is in flight, the third is queued.
C32_Witness ==
    /\ Len(ev) = 3
    /\ max_events = 2
    /\ events = <<2, 3>>
    /\ ev[1].processed
    /\ trace[2].status = "inflight"
    /\ event_queue = <<3>>

\* C33: when stop() was called while an event was in flight and the run loop has
\* exited, reason() and every act() for that event have ended and the event is
\* marked processed, and the events still in the queue are unprocessed and in the
\* order observed.
C33_StopLetsEventFinish ==
    (stopPending /\ \A t \in EscTasks : pc[t] = "done") =>
      /\ \A e \in 1..Len(ev) :
           trace[e].stopped =>
             /\ trace[e].status = "handled"
             /\ \A i \in 1..Len(produced[e]) : produced[e][i].result # "None"
             /\ ev[e].processed
      /\ InObservedOrder(event_queue)
      /\ \A e \in Range(event_queue) : ~ev[e].processed /\ trace[e].status = "queued"

====
